---- MODULE Spec2Model ----
(***************************************************************************)
(* Pair-In Quick (pinq): the signaling broker (socket.io room registry),   *)
(* the signaling clients, and the transfer sessions of the PWA sender and  *)
(* the CLI receiver.                                                       *)
(*                                                                         *)
(* Specifications:                                                         *)
(*   Spec      the broker alone, driven by arbitrary connections           *)
(*   SpecSend  the sender's transfer and its wait for the acknowledgement, *)
(*             against an arbitrary peer on the channel                    *)
(*   SpecE2E   the PWA sender and the CLI receiver paired through the      *)
(*             broker and a direct channel                                 *)
(*   SpecLive  the broker with its timers firing once they are due         *)
(*   SpecRecv  the receiver's reception of a payload, against an arbitrary *)
(*             peer on the channel                                         *)
(***************************************************************************)
EXTENDS Integers, Sequences, FiniteSets, TLC

(***************************************************************************)
(* Bounds of the model                                                     *)
(***************************************************************************)
\* number of socket connections the broker is driven by
MaxConns == 3

Conns == 1..MaxConns

\* ROOM_TTL_MS counted in clock ticks of the model
TtlTicks == 1

\* characters per chunk; stands for the 16 KiB of CHUNK_SIZE, and like it is
\* longer than the control markers
CHUNK_SIZE == 4

\* frames the other side puts on the channel towards the sender at most
MaxFrames == 3

\* 50 * 1024 * 1024, the size App.sendFile refuses to go beyond
MAX_FILE_BYTES == 52428800

\* the sizes of the payloads the user picks
PayloadSizes == {MAX_FILE_BYTES, MAX_FILE_BYTES + 1}

\* characters a raw room code is made of
Chars == {" ", "a", "b", "A", "B"}

\* payload.code missing from the payload (JavaScript undefined)
Undefined == <<"undefined">>

\* the raw codes clients put into join-room and signal payloads
RawCodes ==
  { Undefined, <<" ">>, <<"a", " ">>, <<" ", "B">> }

\* the role field of a join-room payload; "none" is a payload without role
RoleInputs == {"creator", "guest", "none"}

\* opaque handshake payloads
Offer(g) == [type |-> "offer", gen |-> g]

Answer(g) == [type |-> "answer", gen |-> g]

Signals == {Offer(1), Answer(1)}

\* absent fields of a message: no peer id, no code, no signal
NoPeer == 0

NoCode == <<>>

NoSignal == [type |-> "none", gen |-> 0]

NoRole == "none"

(***************************************************************************)
(* String helpers: String.prototype.trim and toUpperCase on sequences of   *)
(* characters.                                                             *)
(***************************************************************************)
RECURSIVE TrimLeft(_)
TrimLeft(s) ==
  IF s # <<>> /\ Head(s) = " " THEN TrimLeft(Tail(s)) ELSE s

RECURSIVE TrimRight(_)
TrimRight(s) ==
  IF s # <<>> /\ s[Len(s)] = " " THEN TrimRight(SubSeq(s, 1, Len(s) - 1)) ELSE s

Trim(s) == TrimRight(TrimLeft(s))

UpperChar(ch) ==
  CASE ch = "a" -> "A"
    [] ch = "b" -> "B"
    [] OTHER -> ch

ToUpperCase(s) == [i \in 1..Len(s) |-> UpperChar(s[i])]

\* payload.code?.trim().toUpperCase()
normalizeCode(raw) ==
  IF raw = Undefined THEN Undefined ELSE ToUpperCase(Trim(raw))

\* !code : undefined and the empty string are falsy
Falsy(code) == code = Undefined \/ code = <<>>

\* the room codes the inputs normalise to
Codes == { normalizeCode(r) : r \in RawCodes } \ { Undefined, <<>> }

\* a plausible slip: a payload without role counts as creator
parseRole_DefaultCreator(r) == IF r = "guest" THEN "guest" ELSE "creator"

\* payload.role === 'creator' ? 'creator' : 'guest'
parseRole(r) == IF r = "creator" THEN "creator" ELSE "guest"

RECURSIVE SetToSeq(_)
SetToSeq(S) ==
  IF S = {} THEN <<>>
  ELSE LET x == CHOOSE y \in S : \A z \in S : y <= z
       IN <<x>> \o SetToSeq(S \ {x})

(***************************************************************************)
(* State                                                                   *)
(***************************************************************************)
VARIABLES
  connected,  \* sockets with a live connection to the broker (an id is never reused)
  rooms,      \* Map<string, RoomState>: code -> [sockets, timer]
  adapter,    \* socket.io's own room membership: code -> set of sockets
  timers,     \* armed setTimeout timers: [id, code, kind, left], left = ticks until due
  emitted,    \* what the last handler emitted, in order: [to, ev, code, peerId, signal]
  lastEvent,  \* the event the broker handled last
  prev,       \* the registry before the last event: [rooms, timers, adapter]
  snd,        \* the sender's transfer session (WebRTCSender.sendText / sendFile)
  sndPeer,    \* the sender's end of the direct channel (its SimplePeer instance)
  sndSig,     \* the sender's signaling client and its connection attempt
  rcv,        \* the CLI receiver's session (receiveCommand, WebRTCReceiver)
  rcvPeer,    \* the receiver's end of the direct channel
  net,        \* socket.io connections: events in flight, per socket and direction
  story       \* what has happened in the run: [retried, gens]

brokerVars == <<connected, rooms, adapter, timers, emitted, lastEvent, prev>>

senderVars == <<snd, sndPeer, sndSig>>

clientVars == <<snd, sndPeer, sndSig, rcv, rcvPeer, net, story>>

\* everything but the sender
beyondSender ==
  <<connected, rooms, adapter, timers, emitted, lastEvent, prev, rcv, rcvPeer, net, story>>

vars ==
  <<connected, rooms, adapter, timers, emitted, lastEvent, prev,
    snd, sndPeer, sndSig, rcv, rcvPeer, net, story>>

(***************************************************************************)
(* The broker: createSignalingServer                                       *)
(***************************************************************************)
\* the broker's mutable state threaded through one handler
BrokerState == [rooms |-> rooms, adapter |-> adapter, timers |-> timers, out |-> <<>>]

Msg(to, ev, code, peerId, signal) ==
  [to |-> to, ev |-> ev, code |-> code, peerId |-> peerId, signal |-> signal]

\* socket.emit(ev, ...)
emit(B, to, ev, code, peerId, signal) ==
  [B EXCEPT !.out = Append(@, Msg(to, ev, code, peerId, signal))]

\* socket.to(code) / io.to(code): the sockets a broadcast reaches
RoomSockets(B, code) == IF code \in DOMAIN B.adapter THEN B.adapter[code] ELSE {}

\* the same message to every socket of a set
emitToAll(B, S, ev, code, peerId, signal) ==
  [B EXCEPT !.out =
     @ \o [i \in 1..Cardinality(S) |-> Msg(SetToSeq(S)[i], ev, code, peerId, signal)]]

\* socket.to(room).emit(ev, ...): every socket of the socket.io room but the sender
broadcastExcept(B, s, room, ev, code, peerId, signal) ==
  emitToAll(B, RoomSockets(B, room) \ {s}, ev, code, peerId, signal)

\* io.to(room).emit(ev, ...): every socket of the socket.io room
broadcastAll(B, room, ev, code, peerId, signal) ==
  emitToAll(B, RoomSockets(B, room), ev, code, peerId, signal)

\* setTimeout returns a fresh Timeout object: an id no armed timer and no room uses
NewTimerId(B) ==
  LET used == { t.id : t \in B.timers } \cup { B.rooms[c].timer : c \in DOMAIN B.rooms }
  IN CHOOSE n \in 1..(Cardinality(used) + 1) :
       n \notin used /\ \A m \in 1..(Cardinality(used) + 1) : m \notin used => n <= m

\* setTimeout(cb, ROOM_TTL_MS)
setTimeout(B, id, code, kind) ==
  [B EXCEPT !.timers =
     @ \cup { [id |-> id, code |-> code, kind |-> kind, left |-> TtlTicks] }]

\* clearTimeout(timer)
clearTimeout(B, id) ==
  [B EXCEPT !.timers = { t \in @ : t.id # id }]

\* a plausible slip: the room is deleted with its timer still armed
clearRoom_KeepTimer(B, code) ==
  IF code \in DOMAIN B.rooms
  THEN [B EXCEPT !.rooms = [c \in (DOMAIN B.rooms) \ {code} |-> B.rooms[c]]]
  ELSE B

clearRoom(B, code) ==
  IF code \in DOMAIN B.rooms
  THEN LET B1 == clearTimeout(B, B.rooms[code].timer)
       IN [B1 EXCEPT !.rooms = [c \in (DOMAIN B.rooms) \ {code} |-> B.rooms[c]]]
  ELSE B

\* a plausible slip: the timer armed before is left armed
scheduleRoomExpiry_NoClear(B, code) ==
  IF code \notin DOMAIN B.rooms THEN B
  ELSE LET id == NewTimerId(B)
           B2 == setTimeout(B, id, code, "expire")
       IN [B2 EXCEPT !.rooms[code].timer = id]

scheduleRoomExpiry(B, code) ==
  IF code \notin DOMAIN B.rooms THEN B
  ELSE LET B1 == clearTimeout(B, B.rooms[code].timer)
           id == NewTimerId(B1)
           B2 == setTimeout(B1, id, code, "expire")
       IN [B2 EXCEPT !.rooms[code].timer = id]

\* a plausible slip: the size test lets a third member in
roomIsFull_OffByOne(B, code) ==
  code \in DOMAIN B.rooms /\ Cardinality(B.rooms[code].sockets) > 2

\* state && state.sockets.size >= 2
roomIsFull(B, code) ==
  code \in DOMAIN B.rooms /\ Cardinality(B.rooms[code].sockets) >= 2

\* rooms.set(code, { code, sockets: new Set(), timer }) with its clearRoom timer
createRoom(B, code) ==
  LET id == NewTimerId(B)
      B1 == setTimeout(B, id, code, "clear")
  IN [B1 EXCEPT !.rooms =
        [c \in (DOMAIN B.rooms) \cup {code} |->
           IF c = code THEN [sockets |-> {}, timer |-> id] ELSE B.rooms[c]]]

\* socket.join(code)
socketJoin(B, s, code) ==
  [B EXCEPT !.adapter =
     [c \in (DOMAIN B.adapter) \cup {code} |->
        IF c = code THEN RoomSockets(B, code) \cup {s} ELSE B.adapter[c]]]

\* a plausible slip: the refusal goes to the whole room
rejectFull_Broadcast(B, s, code) ==
  broadcastAll(emit(B, s, "room-full", code, NoPeer, NoSignal),
               code, "room-full", code, NoPeer, NoSignal)

\* socket.emit('room-full', { code })
rejectFull(B, s, code) == emit(B, s, "room-full", code, NoPeer, NoSignal)

\* a plausible slip: io.to(code) instead of socket.to(code)
announceJoin_ToAll(B, s, code) ==
  broadcastAll(emit(B, s, "room-joined", code, NoPeer, NoSignal),
               code, "peer-joined", code, s, NoSignal)

\* socket.emit('room-joined', ...); socket.to(code).emit('peer-joined', ...)
announceJoin(B, s, code) ==
  broadcastExcept(emit(B, s, "room-joined", code, NoPeer, NoSignal),
                  s, code, "peer-joined", code, s, NoSignal)

\* a plausible slip: a member that joins again is taken off the member set
handleJoin_LeaveOnRejoin(B, s, payload) ==
  LET code == normalizeCode(payload.code)
      role == parseRole(payload.role)
  IN IF Falsy(code) THEN emit(B, s, "error", NoCode, NoPeer, NoSignal)
     ELSE IF roomIsFull(B, code) THEN rejectFull(B, s, code)
     ELSE IF code \notin DOMAIN B.rooms /\ role = "guest"
       THEN emit(B, s, "room-not-found", code, NoPeer, NoSignal)
     ELSE LET B1 == IF code \notin DOMAIN B.rooms /\ role = "creator"
                    THEN createRoom(B, code) ELSE B
              B2 == [B1 EXCEPT !.rooms[code].sockets =
                                 IF s \in @ THEN @ \ {s} ELSE @ \cup {s}]
              B3 == socketJoin(B2, s, code)
              B4 == scheduleRoomExpiry(B3, code)
          IN announceJoin(B4, s, code)

handleJoin(B, s, payload) ==
  LET code == normalizeCode(payload.code)
      role == parseRole(payload.role)
  IN IF Falsy(code) THEN emit(B, s, "error", NoCode, NoPeer, NoSignal)
     ELSE IF roomIsFull(B, code) THEN rejectFull(B, s, code)
     ELSE IF code \notin DOMAIN B.rooms /\ role = "guest"
       THEN emit(B, s, "room-not-found", code, NoPeer, NoSignal)
     ELSE LET B1 == IF code \notin DOMAIN B.rooms /\ role = "creator"
                    THEN createRoom(B, code) ELSE B
              B2 == [B1 EXCEPT !.rooms[code].sockets = @ \cup {s}]
              B3 == socketJoin(B2, s, code)
              B4 == scheduleRoomExpiry(B3, code)
          IN announceJoin(B4, s, code)

\* a plausible slip: the relay also reaches the sender
handleSignal_Echo(B, s, payload) ==
  LET code == normalizeCode(payload.code)
  IN IF Falsy(code) \/ code \notin DOMAIN B.rooms
     THEN emit(B, s, "room-not-found", code, NoPeer, NoSignal)
     ELSE scheduleRoomExpiry(
            broadcastAll(B, code, "signal", NoCode, s, payload.signal), code)

\* a plausible slip: the room lookup is dropped
handleSignal_NoCheck(B, s, payload) ==
  LET code == normalizeCode(payload.code)
  IN scheduleRoomExpiry(
       broadcastExcept(B, s, code, "signal", NoCode, s, payload.signal), code)

\* a plausible slip: a signalling socket is registered as a member
handleSignal_AutoJoin(B, s, payload) ==
  LET code == normalizeCode(payload.code)
  IN IF Falsy(code) \/ code \notin DOMAIN B.rooms
     THEN emit(B, s, "room-not-found", code, NoPeer, NoSignal)
     ELSE LET B1 == [B EXCEPT !.rooms[code].sockets = @ \cup {s}]
          IN scheduleRoomExpiry(
               broadcastExcept(B1, s, code, "signal", NoCode, s, payload.signal), code)

\* the relayed event is signal{signal, from}
handleSignal(B, s, payload) ==
  LET code == normalizeCode(payload.code)
  IN IF Falsy(code) \/ code \notin DOMAIN B.rooms
     THEN emit(B, s, "room-not-found", code, NoPeer, NoSignal)
     ELSE scheduleRoomExpiry(
            broadcastExcept(B, s, code, "signal", NoCode, s, payload.signal), code)

\* a plausible slip: an emptied room is kept and only re-armed
disconnectFromRoom_KeepEmpty(B, s, code) ==
  IF s \notin B.rooms[code].sockets THEN B
  ELSE LET B1 == [B EXCEPT !.rooms[code].sockets = @ \ {s}]
           B2 == broadcastExcept(B1, s, code, "peer-disconnected", code, s, NoSignal)
       IN scheduleRoomExpiry(B2, code)

\* a plausible slip: a room that keeps a member is not re-armed
disconnectFromRoom_NoRenew(B, s, code) ==
  IF s \notin B.rooms[code].sockets THEN B
  ELSE LET B1 == [B EXCEPT !.rooms[code].sockets = @ \ {s}]
           B2 == broadcastExcept(B1, s, code, "peer-disconnected", code, s, NoSignal)
       IN IF Cardinality(B2.rooms[code].sockets) = 0
          THEN clearRoom(B2, code)
          ELSE B2

\* one iteration of the loop over rooms.entries() in handleDisconnect
disconnectFromRoom(B, s, code) ==
  IF s \notin B.rooms[code].sockets THEN B
  ELSE LET B1 == [B EXCEPT !.rooms[code].sockets = @ \ {s}]
           B2 == broadcastExcept(B1, s, code, "peer-disconnected", code, s, NoSignal)
       IN IF Cardinality(B2.rooms[code].sockets) = 0
          THEN clearRoom(B2, code)
          ELSE scheduleRoomExpiry(B2, code)

RECURSIVE disconnectLoop(_, _, _)
disconnectLoop(B, s, todo) ==
  IF todo = <<>> THEN B
  ELSE disconnectLoop(disconnectFromRoom(B, s, Head(todo)), s, Tail(todo))

\* the codes of a set, in a fixed order
RECURSIVE CodeSeq(_)
CodeSeq(S) ==
  IF S = {} THEN <<>>
  ELSE LET x == CHOOSE y \in S : TRUE IN <<x>> \o CodeSeq(S \ {x})

handleDisconnect(B, s) == disconnectLoop(B, s, CodeSeq(DOMAIN B.rooms))

\* socket.io removes a closing socket from every room before 'disconnect' fires,
\* and drops a room that became empty
socketLeaveAll(B, s) ==
  [B EXCEPT !.adapter =
     [c \in { d \in DOMAIN B.adapter : B.adapter[d] # {s} } |-> B.adapter[c] \ {s}]]

\* io.in(code).socketsLeave(code)
socketsLeave(B, code) ==
  [B EXCEPT !.adapter = [c \in (DOMAIN B.adapter) \ {code} |-> B.adapter[c]]]

\* a plausible slip: the members are told, the room is kept
expireRoom_KeepRoom(B, code) ==
  IF code \notin DOMAIN B.rooms THEN B
  ELSE socketsLeave(broadcastAll(B, code, "room-expired", code, NoPeer, NoSignal), code)

\* the callback of the timer armed by scheduleRoomExpiry
expireRoom(B, code) ==
  IF code \notin DOMAIN B.rooms THEN B
  ELSE clearRoom(socketsLeave(
         broadcastAll(B, code, "room-expired", code, NoPeer, NoSignal), code), code)

\* a timer fires: it is no longer armed, and its callback runs
fireTimer(B, t) ==
  LET B1 == [B EXCEPT !.timers = @ \ {t}]
  IN IF t.kind = "clear" THEN clearRoom(B1, t.code) ELSE expireRoom(B1, t.code)

Snapshot == [rooms |-> rooms, timers |-> timers, adapter |-> adapter]

Commit(B) ==
  /\ prev' = Snapshot
  /\ rooms' = B.rooms
  /\ adapter' = B.adapter
  /\ timers' = B.timers
  /\ emitted' = B.out

\* an event as the broker receives it: the payload fields are the raw ones
Event(op, s, raw, role, signal) ==
  [op |-> op, conn |-> s, raw |-> raw, role |-> role, signal |-> signal]


(***************************************************************************)
(* Frames on the direct channel.  A frame is a string or a byte array; its *)
(* body is a sequence of characters, or of the bytes that encode them.     *)
(* "P" stands for the marker prefix __PINQ_CTRL__, "BOM" for the byte      *)
(* order mark (U+FEFF, bytes EF BB BF), "FF" for a byte that is not valid  *)
(* UTF-8 and "FFFD" for the replacement character it decodes to.  A string *)
(* is a sequence of UTF-16 code units: "é" is U+00E9 (bytes C3 A9), "HI"   *)
(* and "LO" are the two surrogates of one character outside the BMP (bytes *)
(* F0 9F 98 80); every other unit is one byte in UTF-8.                    *)
(***************************************************************************)
ACK_MARKER == <<"P", "A", "C", "K">>

EOF_MARKER == <<"P", "E", "O", "F">>

LEGACY_ACK == <<"A", "C", "K">>

LEGACY_EOF == <<"E", "O", "F">>

Str(body) == [type |-> "string", body |-> body]

Bytes(body) == [type |-> "bytes", body |-> body]

StartsWith(s, q) == Len(q) <= Len(s) /\ SubSeq(s, 1, Len(q)) = q

Drop(s, n) == SubSeq(s, n + 1, Len(s))

\* the UTF-8 sequences of more than one byte and the code units they encode
MultiByte ==
  { [bytes |-> <<"C3", "A9">>, units |-> <<"é">>],
    [bytes |-> <<"F0", "9F", "98", "80">>, units |-> <<"HI", "LO">>],
    [bytes |-> <<"EF", "BF", "BD">>, units |-> <<"FFFD">>] }

\* new TextEncoder().encode(text): UTF-8, a surrogate without its partner is
\* encoded as U+FFFD
RECURSIVE TextEncode(_)
TextEncode(s) ==
  IF s = <<>> THEN <<>>
  ELSE IF \E m \in MultiByte : StartsWith(s, m.units)
    THEN LET m == CHOOSE x \in MultiByte : StartsWith(s, x.units)
         IN m.bytes \o TextEncode(Drop(s, Len(m.units)))
  ELSE IF s[1] \in {"HI", "LO"} THEN <<"EF", "BF", "BD">> \o TextEncode(Tail(s))
  ELSE <<s[1]>> \o TextEncode(Tail(s))

\* how many bytes of b, from its second on, continue the sequence q
RECURSIVE Continued(_, _, _)
Continued(b, q, k) ==
  IF k < Len(q) /\ k < Len(b) /\ b[k + 1] = q[k + 1] THEN Continued(b, q, k + 1) ELSE k

\* UTF-8 decoding: a complete sequence gives its character, a truncated
\* sequence or a byte that starts none gives one U+FFFD
RECURSIVE Utf8Decode(_)
Utf8Decode(b) ==
  IF b = <<>> THEN <<>>
  ELSE IF \E m \in MultiByte : StartsWith(b, m.bytes)
    THEN LET m == CHOOSE x \in MultiByte : StartsWith(b, x.bytes)
         IN m.units \o Utf8Decode(Drop(b, Len(m.bytes)))
  ELSE IF \E m \in MultiByte : b[1] = m.bytes[1]
    THEN LET m == CHOOSE x \in MultiByte : b[1] = x.bytes[1]
         IN <<"FFFD">> \o Utf8Decode(Drop(b, Continued(b, m.bytes, 1)))
  ELSE IF b[1] = "FF" \/ \E m \in MultiByte : \E i \in 2..Len(m.bytes) : b[1] = m.bytes[i]
    THEN <<"FFFD">> \o Utf8Decode(Tail(b))
  ELSE <<b[1]>> \o Utf8Decode(Tail(b))

\* new TextDecoder().decode(data): UTF-8, a leading byte order mark is dropped
TextDecode(bytes) ==
  Utf8Decode(IF Len(bytes) > 0 /\ bytes[1] = "BOM" THEN Tail(bytes) ELSE bytes)

\* a string handed to RTCDataChannel.send is a USVString: a surrogate without
\* its partner goes out as U+FFFD
RECURSIVE ToUSV(_)
ToUSV(s) ==
  IF s = <<>> THEN <<>>
  ELSE IF StartsWith(s, <<"HI", "LO">>) THEN <<"HI", "LO">> \o ToUSV(Drop(s, 2))
  ELSE IF s[1] \in {"HI", "LO"} THEN <<"FFFD">> \o ToUSV(Tail(s))
  ELSE <<s[1]>> \o ToUSV(Tail(s))

\* a frame as it travels: a string in UTF-8, bytes as they are
Wire(f) == IF f.type = "string" THEN [f EXCEPT !.body = ToUSV(@)] ELSE f

\* the size of a frame on the channel in bytes
ByteLength(f) == IF f.type = "string" THEN Len(TextEncode(f.body)) ELSE Len(f.body)

\* JSON.stringify(metadata) of a payload of the given type
MetadataFrame(kind) == Str(<<"{", kind, "}">>)

Min(a, b) == IF a < b THEN a ELSE b

\* text.slice(from, to) / file.slice(from, to)
slice(data, from, to) == SubSeq(data, from + 1, Min(to, Len(data)))

RECURSIVE chunkLoop(_, _, _, _)
chunkLoop(data, i, chunkSize, chunks) ==
  IF i < Len(data)
  THEN chunkLoop(data, i + chunkSize, chunkSize,
                 Append(chunks, slice(data, i, i + chunkSize)))
  ELSE chunks

\* chunkText(text, chunkSize) of utils/fileChunker: slices of the string
chunkText(text, chunkSize) ==
  LET c == chunkLoop(text, 0, chunkSize, <<>>) IN [k \in 1..Len(c) |-> Str(c[k])]

\* chunkText(text, chunkSize) of the build that encodes first: slices of the
\* UTF-8 bytes of the text
chunkTextEncoded(text, chunkSize) ==
  LET c == chunkLoop(TextEncode(text), 0, chunkSize, <<>>)
  IN [k \in 1..Len(c) |-> Bytes(c[k])]

\* the builds of the sender differ in their chunkText
Builds == {"string", "encoded"}

textChunks(build, text) ==
  IF build = "encoded" THEN chunkTextEncoded(text, CHUNK_SIZE) ELSE chunkText(text, CHUNK_SIZE)

\* chunkFile(file, chunkSize): Uint8Array chunks
chunkFile(file, chunkSize) ==
  LET c == chunkLoop(file, 0, chunkSize, <<>>) IN [k \in 1..Len(c) |-> Bytes(c[k])]

\* payloads the sender is given
Texts ==
  { <<>>, <<"a">>, <<"a", "b", "c", "d", "e">>, LEGACY_EOF,
    <<"é", "é", "é">>, <<"a", "b", "c", "é">>, <<"a", "b", "c", "HI", "LO">> }

Files == { <<>>, <<"x">>, <<"x", "y", "z", "x", "y">>, LEGACY_EOF }

\* frames an arbitrary peer may put on the channel towards the sender
PeerFrames ==
  { Str(ACK_MARKER), Str(LEGACY_ACK), Bytes(ACK_MARKER), Bytes(<<"BOM">> \o LEGACY_ACK),
    Str(<<"BOM">> \o LEGACY_ACK), Str(<<"a", "c", "k">>), Bytes(<<"FF">>), Str(EOF_MARKER) }

(***************************************************************************)
(* The sender's transfer: WebRTCSender.sendText / sendFile / waitForAck.   *)
(* W = [s, p] is the session and its peer threaded through one step.       *)
(* torn: destroy() has returned while the send was under way; closeDue:    *)
(* the destroyed peer has not emitted 'close' yet; late: a listener of the *)
(* session was called after destroy() had returned.                        *)
(***************************************************************************)
SenderIdle ==
  [pc |-> "idle", kind |-> "text", todo |-> <<>>, sent |-> <<>>, eofSent |-> FALSE,
   listeners |-> {}, ackTimer |-> FALSE, result |-> "none", error |-> "none",
   handled |-> <<>>, firstEnd |-> "none", handledAtEnd |-> <<>>, payload |-> <<>>,
   size |-> 0, build |-> "string", torn |-> FALSE, closeDue |-> FALSE, late |-> FALSE]

\* no SimplePeer instance (this.peer = null): gen 0
PeerNone ==
  [gen |-> 0, destroyed |-> FALSE, connected |-> FALSE, flowing |-> FALSE, inbox |-> <<>>,
   arrived |-> 0, out |-> <<>>, connecting |-> FALSE, closing |-> FALSE, remote |-> 0]

\* the timeout of a connection attempt (CONNECT_TIMEOUT_MS), in ticks
ConnectTicks == 2

\* the signaling client without a socket, no connection attempt under way;
\* left is the time left on the timer of the attempt, age the time since the
\* first attempt of connect() began
SigIdle ==
  [socket |-> 0, joinWait |-> FALSE, sigWired |-> FALSE, pjHandler |-> FALSE,
   connWait |-> FALSE, left |-> 0, age |-> 0]

\* s the session, p its peer, g its signaling client, up what it emits to the broker
SenderState == [s |-> snd, p |-> sndPeer, g |-> sndSig, up |-> <<>>]

\* a promise settles once: a later resolve or reject changes nothing
settle(W, result, error) ==
  IF W.s.result = "none"
  THEN [W EXCEPT !.s.result = result, !.s.error = error,
                 !.s.pc = IF result = "success" THEN "done" ELSE "failed"]
  ELSE W

\* peer.send(frame) for each frame in turn; send throws on a destroyed peer,
\* which rejects the async function
peerSend(W, frames) ==
  IF W.p.destroyed
  THEN settle(W, "failure", "ERR_DESTROYED")
  ELSE [W EXCEPT !.s.sent = @ \o frames]

\* the cleanup of waitForAck
cleanup(W) == [W EXCEPT !.s.listeners = {}, !.s.ackTimer = FALSE]

\* waitForAck up to its return: timer armed, listeners registered; the first
\* 'data' listener switches the stream to flowing mode
waitForAck(W) ==
  [W EXCEPT !.s.pc = "awaitingAck", !.s.ackTimer = TRUE,
            !.s.listeners = {"data", "error", "close"}, !.p.flowing = TRUE]

\* handleData of waitForAck resolving on whatever arrives
handleData_AnyData(W, data) ==
  settle(cleanup([W EXCEPT !.s.handled = Append(@, data)]), "success", "none")

\* handleData of waitForAck
handleData(W, data) ==
  LET payload == IF data.type = "string" THEN data.body ELSE TextDecode(data.body)
      W1 == [W EXCEPT !.s.handled = Append(@, data)]
  IN IF payload = ACK_MARKER \/ payload = LEGACY_ACK
     THEN settle(cleanup(W1), "success", "none")
     ELSE W1

\* handleError of waitForAck
handleError(W) == settle(cleanup(W), "failure", "error")

\* handleClose of waitForAck
handleClose(W) == settle(cleanup(W), "failure", "closed")

\* the timer callback of waitForAck
ackTimedOut(W) == settle(cleanup(W), "failure", "timeout")

\* sendText from the first peer.send to the return of waitForAck(): one
\* synchronous run
sendText(W, text) ==
  LET W1 == peerSend([W EXCEPT !.s.payload = text],
                     <<MetadataFrame("text")>> \o textChunks(W.s.build, text)
                       \o <<Str(EOF_MARKER)>>)
  IN IF W1.s.result # "none" THEN W1 ELSE waitForAck([W1 EXCEPT !.s.eofSent = TRUE])

\* sendFile: the metadata frame, up to the first await of the chunk loop
sendFileMetadata(W, file) ==
  LET W1 == peerSend([W EXCEPT !.s.payload = file], <<MetadataFrame("file")>>)
  IN IF W1.s.result # "none" THEN W1
     ELSE [W1 EXCEPT !.s.pc = "streaming", !.s.todo = chunkFile(file, CHUNK_SIZE)]

\* sendFile: one turn of the for await loop
sendFileChunk(W) ==
  LET W1 == peerSend(W, <<Head(W.s.todo)>>)
  IN IF W1.s.result # "none" THEN W1 ELSE [W1 EXCEPT !.s.todo = Tail(@)]

\* a plausible slip: the end marker goes out twice
sendFileEof_Twice(W) ==
  LET W1 == peerSend(W, <<Str(EOF_MARKER), Str(EOF_MARKER)>>)
  IN IF W1.s.result # "none" THEN W1 ELSE waitForAck([W1 EXCEPT !.s.eofSent = TRUE])

\* sendFile: after the loop
sendFileEof(W) ==
  LET W1 == peerSend(W, <<Str(EOF_MARKER)>>)
  IN IF W1.s.result # "none" THEN W1 ELSE waitForAck([W1 EXCEPT !.s.eofSent = TRUE])

\* the first close, error or timeout after the end marker went out, and the
\* frames handleData had seen by then
noteEnd(W, what) ==
  IF W.s.eofSent /\ W.s.firstEnd = "none"
  THEN [W EXCEPT !.s.firstEnd = what, !.s.handledAtEnd = W.s.handled]
  ELSE W

\* cleanupAll of WebRTCSender.connect: the attempt's timer and its listeners
\* on the peer, and the peer-joined subscription
cleanupAll_KeepSubscription(W) == [W EXCEPT !.g.connWait = FALSE, !.g.left = 0]

cleanupAll(W) == [W EXCEPT !.g.connWait = FALSE, !.g.pjHandler = FALSE, !.g.left = 0]

\* the peer is destroyed: buffered frames are gone, no more are delivered
peerDestroyed(W) ==
  [W EXCEPT !.p.destroyed = TRUE, !.p.connected = FALSE, !.p.inbox = <<>>,
            !.p.out = <<>>, !.p.connecting = FALSE, !.p.closing = FALSE]

\* the peer emits 'close': the handler createPeer registered unwires the
\* signaling client, then the handleClose of the wait under way runs
onPeerClose(W) ==
  LET W1 == [noteEnd(peerDestroyed(W), "close") EXCEPT !.g.sigWired = FALSE]
      W2 == IF W1.g.connWait
            THEN settle(cleanupAll(W1), "failure", "closed-before-established")
            ELSE W1
  IN IF "close" \in W2.s.listeners THEN handleClose(W2) ELSE W2

\* the peer emits 'error' and then 'close'
onPeerError(W) ==
  LET W0 == [noteEnd(peerDestroyed(W), "error") EXCEPT !.g.sigWired = FALSE]
      W1 == IF W0.g.connWait
            THEN settle(cleanupAll(W0), "failure", "error")
            ELSE W0
      W2 == IF "error" \in W1.s.listeners THEN handleError(W1) ELSE W1
  IN IF "close" \in W2.s.listeners THEN handleClose(W2) ELSE W2

\* the flowing stream emits the next buffered frame as 'data'
onPeerData(W) ==
  LET data == Head(W.p.inbox)
      W1 == [W EXCEPT !.p.inbox = Tail(@)]
  IN IF "data" \in W1.s.listeners THEN handleData(W1, data) ELSE W1

\* the ACK_TIMEOUT_MS timer fires
onAckTimeout(W) == ackTimedOut(noteEnd(W, "timeout"))

(***************************************************************************)
(* The sender's handshake: SignalingClient.connect and WebRTCSender.connect *)
(***************************************************************************)
\* what a client sends to the broker
Up(ev, code, role, signal) == [ev |-> ev, code |-> code, role |-> role, signal |-> signal]

\* the pairing code the PWA shows and the one typed into the CLI
PairingCode == <<"A">>

CliInput == <<"a", " ">>

\* code.trim().toUpperCase()
clientCode(raw) == ToUpperCase(Trim(raw))

\* this.socket?.emit(...): nothing is sent without a socket
socketEmit(W, m) == IF W.g.socket = 0 THEN W ELSE [W EXCEPT !.up = Append(@, m)]

\* startConnectionAttempt: the old peer is destroyed and a new initiator is
\* created and wired to the signaling client; it will emit its offer.  The
\* 'close' handler that createPeer gave the old peer calls
\* this.cleanupSignalHandler: when 'close' is emitted inside destroy()
\* (closeSync) that is still the old wiring, when it is emitted after
\* destroy() returned it is the wiring of the new peer.  The timer of the
\* previous attempt is cleared and a timer of the full timeout is armed.
startConnectionAttempt(W, g, closeSync) ==
  LET hadPeer == W.p.gen # 0 /\ ~W.p.destroyed
  IN [W EXCEPT !.p = [PeerNone EXCEPT !.gen = g, !.out = <<Offer(g)>>],
               !.g.connWait = TRUE,
               !.g.left = ConnectTicks,
               !.g.sigWired = (~hadPeer \/ closeSync)]

\* SignalingClient.connect up to io(): the socket is opened
openSignaling(W, c) ==
  [W EXCEPT !.g.socket = c, !.g.joinWait = TRUE, !.s.pc = "joining",
            !.up = Append(@, Up("connect", NoCode, NoRole, NoSignal))]

\* App.sendText / App.sendFile up to ensureSender: a file above the limit is
\* refused, a text is not measured
appSend(W, c, kind, size) ==
  LET W1 == [W EXCEPT !.s.kind = kind, !.s.size = size]
  IN IF kind = "file" /\ size > MAX_FILE_BYTES
     THEN [W1 EXCEPT !.s.pc = "rejected", !.s.error = "too-large"]
     ELSE openSignaling(W1, c)

\* handleConnect of SignalingClient.connect
onSocketConnect(W) ==
  IF W.g.joinWait
  THEN socketEmit(W, Up("join-room", clientCode(PairingCode), "creator", NoSignal))
  ELSE W

\* handleJoined, and the rest of WebRTCSender.connect that its resolve runs
onRoomJoined(W, m, g, closeSync) ==
  IF W.g.joinWait /\ m.code = clientCode(PairingCode)
  THEN startConnectionAttempt(
         [W EXCEPT !.g.joinWait = FALSE, !.g.pjHandler = TRUE, !.s.pc = "connecting"],
         g, closeSync)
  ELSE W

\* handleRoomFull, handleRoomNotFound, handleRoomExpired
onJoinRejected(W, m) ==
  IF W.g.joinWait /\ (m.ev = "room-expired" => m.code = clientCode(PairingCode))
  THEN settle([W EXCEPT !.g.joinWait = FALSE], "failure", m.ev)
  ELSE W

\* the timer of SignalingClient.connect: cleanup() and reject
onJoinTimeout(W) ==
  settle([W EXCEPT !.g.joinWait = FALSE], "failure", "signaling-timeout")

\* the peer-joined subscription of WebRTCSender.connect
onPeerJoined(W, g, closeSync) ==
  IF ~W.g.pjHandler \/ W.p.connected THEN W
  ELSE startConnectionAttempt(W, g, closeSync)

\* handleInboundSignal: peer.signal(payload.signal); the answer to this
\* peer's own offer lets the channel connect
onSignalIn(W, m) ==
  IF W.g.sigWired /\ W.p.gen # 0 /\ ~W.p.destroyed
     /\ m.signal = Answer(W.p.gen) /\ ~W.p.connected
  THEN [W EXCEPT !.p.connecting = TRUE]
  ELSE W

\* the peer emits 'signal': handleOutboundSignal
onPeerSignal(W) ==
  LET W1 == [W EXCEPT !.p.out = Tail(@)]
  IN IF W.g.sigWired
     THEN socketEmit(W1, Up("signal", clientCode(PairingCode), NoRole, Head(W.p.out)))
     ELSE W1

\* the peer emits 'connect': handleConnect of the attempt
onPeerConnect(W) ==
  LET W1 == [W EXCEPT !.p.connected = TRUE, !.p.connecting = FALSE]
  IN IF W1.g.connWait THEN [cleanupAll(W1) EXCEPT !.s.pc = "connected"] ELSE W1

\* the CONNECT_TIMEOUT_MS timer of the attempt fires
onConnectTimeout(W) == settle(cleanupAll(W), "failure", "connect-timeout")

\* WebRTCSender.destroy
destroy(W) ==
  LET W1 == socketEmit(W, Up("disconnect", NoCode, NoRole, NoSignal))
  IN [W1 EXCEPT !.g.sigWired = FALSE, !.g.pjHandler = FALSE, !.g.socket = 0,
                !.p = PeerNone]

\* resetSession of the app while a send is under way: destroy() on a sender
\* whose waits are pending.  destroy() removes the signal wiring and the
\* peer-joined subscription and destroys the peer, but not the listeners the
\* pending wait has on the peer, which the wait still holds after this.peer
\* is null.  The peer emits 'close' inside peer.destroy() (closeSync) or
\* after destroy() has returned.
resetSession(W, closeSync) ==
  LET live == W.p.gen # 0 /\ ~W.p.destroyed
      W1 == IF live /\ closeSync THEN onPeerClose(W) ELSE peerDestroyed(W)
      W2 == [destroy(W1) EXCEPT !.p = W1.p]
  IN [W2 EXCEPT !.s.torn = TRUE, !.s.closeDue = live /\ ~closeSync]

\* the destroyed peer emits 'close' after destroy() has returned: the
\* listeners that the pending wait left on it are called
onLateClose(W) ==
  LET W1 == [W EXCEPT !.s.closeDue = FALSE,
                      !.s.late = @ \/ W.g.connWait \/ "close" \in W.s.listeners]
      W2 == IF W1.g.connWait
            THEN settle(cleanupAll(W1), "failure", "closed-before-established")
            ELSE W1
  IN IF "close" \in W2.s.listeners THEN handleClose(W2) ELSE W2

(***************************************************************************)
(* The CLI receiver: receiveCommand, SignalingClient.join and              *)
(* WebRTCReceiver.  R = [r, p] is the session and its peer threaded        *)
(* through one step, up what it emits to the broker, acks what it sends    *)
(* on the channel.                                                         *)
(***************************************************************************)
\* no write stream: a text session, or a file session before handleFileReception
SinkNone == [state |-> "none", disk |-> <<>>, queued |-> <<>>, cbs |-> 0]

\* console.log has not shown a text
NotPrinted == <<"none">>

\* confirm is options.confirm and strict the stream semantics of the Node
\* runtime (a failing stream hands its error to the callbacks of end()); seen,
\* metaCount, lost, eofSeen, atEof, closedEarly and sinkFailed record what
\* happened to the session, ackFrames what it has put on the channel, early
\* the metadata that arrived before waitForMetadata was called and returned
\* the metadata waitForMetadata resolved with, waits the timers and listeners
\* of the waits that are armed or registered;
\* joinListeners says that the listeners of join() are registered, joinResult
\* how its promise settled and joinBy on which event; pjOwn says that
\* waitForPeerJoined received peer-joined for the own code, offerAfterJoin that
\* an offer was dispatched after it, peerMade that createPeer ran, ignored
\* that a wait of start() received an event it does not wait for;
\* disconnected says
\* that disconnect() was called and lateEvent that an event was passed on to
\* the subscribers after that
NoJoinEvent == [ev |-> "none", code |-> NoCode]

ReceiverIdle ==
  [pc |-> "idle", socket |-> 0, code |-> NoCode, joined |-> FALSE, sigWired |-> FALSE,
   cleaning |-> FALSE, metadata |-> "none", text |-> <<>>, finished |-> FALSE,
   ackSent |-> FALSE, error |-> "none",
   confirm |-> FALSE, strict |-> TRUE, sink |-> SinkNone, file |-> "absent",
   printed |-> NotPrinted, seen |-> <<>>, metaCount |-> 0, lost |-> <<>>,
   eofSeen |-> FALSE, atEof |-> <<>>, closedEarly |-> FALSE, sinkFailed |-> FALSE,
   ackFrames |-> <<>>, early |-> "none", returned |-> "none", waits |-> {},
   joinListeners |-> FALSE, joinResult |-> "none", joinBy |-> NoJoinEvent,
   pjOwn |-> FALSE, offerAfterJoin |-> FALSE, peerMade |-> FALSE, ignored |-> FALSE,
   disconnected |-> FALSE, lateEvent |-> FALSE]

ReceiverState == [r |-> rcv, p |-> rcvPeer, up |-> <<>>, acks |-> <<>>]

\* this.socket.emit(...)
rEmit(R, m) == [R EXCEPT !.up = Append(@, m)]

\* WebRTCReceiver.cleanup: once only; the signal listener and every listener
\* on the peer are removed
rCleanup(R) ==
  IF R.r.cleaning THEN R
  ELSE [R EXCEPT !.r.cleaning = TRUE, !.r.metadata = "none", !.r.sigWired = FALSE,
                 !.r.waits = @ \ {"start.connect", "start.error"}]

\* WebRTCReceiver.close
rClose(R) == [rCleanup(R) EXCEPT !.p = PeerNone]

\* a plausible slip: disconnect() leaves the socket as it is
rDisconnect_KeepSocket(R) == [R EXCEPT !.r.disconnected = TRUE]

\* SignalingClient.disconnect: this.socket.disconnect()
rDisconnect(R) ==
  [rEmit(R, Up("disconnect", NoCode, NoRole, NoSignal)) EXCEPT !.r.disconnected = TRUE]

\* the finally of receiveCommand: receiver.close(); signaling.disconnect()
rFinally(R) == rDisconnect(rClose(R))

\* a rejection leaves receiveCommand through its finally
rFail(R, error) == [rFinally(R) EXCEPT !.r.pc = "failed", !.r.error = error]

\* the forwarding listeners of the SignalingClient constructor: this.emit(...)
rForward(R) == [R EXCEPT !.r.lateEvent = @ \/ R.r.disconnected]

\* a promise settles once: the first resolve or reject decides
rSettleJoin(R, result, m) ==
  IF R.r.joinResult = "none"
  THEN [R EXCEPT !.r.joinResult = result, !.r.joinBy = [ev |-> m.ev, code |-> m.code]]
  ELSE R

\* the catch around signaling.join in receiveCommand rethrows: the command
\* ends before its try/finally, the socket stays open
rJoinFailed(R, error) == [R EXCEPT !.r.pc = "failed", !.r.error = error]

\* the timer and the two once-listeners of SignalingClient.connect, and those
\* of the wait for the connection at the end of start()
ConnectWait == {"connect.timer", "connect.connect", "connect.error"}

StartWait == {"start.timer", "start.connect", "start.error"}

\* receiveCommand up to SignalingClient.connect: the socket is opened
rOpen(R, c, input) ==
  [rEmit(R, Up("connect", NoCode, NoRole, NoSignal))
     EXCEPT !.r.pc = "wsConnecting", !.r.socket = c, !.r.code = clientCode(input),
            !.r.waits = ConnectWait]

\* 'connect' resolves connect(); join registers its listeners and emits join-room
rOnSocketConnect(R) ==
  LET R0 == [R EXCEPT !.r.waits = @ \ {"connect.timer", "connect.connect"}]
  IN IF R0.r.pc = "wsConnecting"
     THEN [rEmit(R0, Up("join-room", R0.r.code, "guest", NoSignal))
             EXCEPT !.r.pc = "joining", !.r.joinListeners = TRUE,
                    !.r.waits = @ \cup {"join.timer"}]
     ELSE R0

\* a plausible slip: onJoined resolves for any code
rOnRoomJoined_AnyCode(R, m) ==
  IF R.r.joinListeners
  THEN LET R1 == [R EXCEPT !.r.joinListeners = FALSE, !.r.waits = @ \ {"join.timer"}]
       IN IF R1.r.joinResult = "none"
          THEN [rSettleJoin(R1, "resolved", m)
                  EXCEPT !.r.pc = "waitPeerJoined", !.r.joined = TRUE,
                         !.r.waits = @ \cup {"peerJoined"}]
          ELSE R1
  ELSE R

\* onJoined of join, then receiver.start() up to its wait for peer-joined
rOnRoomJoined(R, m) ==
  IF R.r.joinListeners /\ m.code = R.r.code
  THEN LET R1 == [R EXCEPT !.r.joinListeners = FALSE, !.r.waits = @ \ {"join.timer"}]
       IN IF R1.r.joinResult = "none"
          THEN [rSettleJoin(R1, "resolved", m)
                  EXCEPT !.r.pc = "waitPeerJoined", !.r.joined = TRUE,
                         !.r.waits = @ \cup {"peerJoined"}]
          ELSE R1
  ELSE R

\* onRoomFull, onRoomNotFound, onExpired of join; room-expired is also
\* passed on by the listener of the constructor
rOnJoinRejected(R, m) ==
  LET R0 == IF m.ev = "room-expired" THEN rForward(R) ELSE R
  IN IF R0.r.joinListeners /\ (m.ev = "room-expired" => m.code = R0.r.code)
     THEN LET R1 == [R0 EXCEPT !.r.joinListeners = FALSE, !.r.waits = @ \ {"join.timer"}]
          IN IF R1.r.joinResult = "none"
             THEN rJoinFailed(rSettleJoin(R1, "rejected", m), m.ev)
             ELSE R1
     ELSE R0

\* the timer of connect() fires while join awaits it, or the timer of join
\* fires: reject, the listeners stay registered
rOnJoinTimeout(R) ==
  IF R.r.joinResult = "none"
  THEN rJoinFailed(rSettleJoin([R EXCEPT !.r.waits = @ \ {"join.timer", "connect.timer"}],
                               "rejected", [ev |-> "timeout", code |-> NoCode]),
                   IF R.r.joinListeners THEN "join-timeout" ELSE "signaling-timeout")
  ELSE R

\* a plausible slip: handlePeerJoined resolves for any code
rOnPeerJoined_AnyCode(R, m) ==
  LET R0 == [rForward(R) EXCEPT
               !.r.pjOwn = @ \/ (R.r.pc = "waitPeerJoined" /\ m.code = R.r.code),
               !.r.ignored = @ \/ (R.r.pc = "waitPeerJoined" /\ m.code # R.r.code)]
  IN IF R0.r.pc = "waitPeerJoined"
     THEN [R0 EXCEPT !.r.pc = "waitOffer", !.r.sigWired = TRUE, !.r.peerMade = TRUE,
                     !.r.waits = (@ \ {"peerJoined"}) \cup {"offer"},
                     !.p = [PeerNone EXCEPT !.gen = 1, !.flowing = TRUE]]
     ELSE R0

\* the event is passed on; handlePeerJoined of waitForPeerJoined, then
\* createPeer and waitForOffer
rOnPeerJoined(R, m) ==
  LET R0 == [rForward(R) EXCEPT
               !.r.pjOwn = @ \/ (R.r.pc = "waitPeerJoined" /\ m.code = R.r.code),
               !.r.ignored = @ \/ (R.r.pc = "waitPeerJoined" /\ m.code # R.r.code)]
  IN IF R0.r.pc = "waitPeerJoined" /\ m.code = R0.r.code
     THEN [R0 EXCEPT !.r.pc = "waitOffer", !.r.sigWired = TRUE, !.r.peerMade = TRUE,
                     !.r.waits = (@ \ {"peerJoined"}) \cup {"offer"},
                     !.p = [PeerNone EXCEPT !.gen = 1, !.flowing = TRUE]]
     ELSE R0

\* the event is passed on; onSignal of createPeer (peer.signal) and
\* handleSignal of waitForOffer
rOnSignal(R, m) ==
  LET R0 == [rForward(R) EXCEPT
               !.r.offerAfterJoin = @ \/ (R.r.pjOwn /\ m.signal.type = "offer"),
               !.r.ignored = @ \/ (R.r.pc = "waitOffer" /\ m.signal.type # "offer")]
      fed == R0.r.sigWired /\ R0.p.gen # 0 /\ ~R0.p.destroyed /\ ~R0.r.cleaning
      R1 == IF fed /\ m.signal.type = "offer"
            THEN [R0 EXCEPT !.p.remote = m.signal.gen,
                            !.p.out = Append(@, Answer(m.signal.gen))]
            ELSE R0
  IN IF R0.r.pc = "waitOffer" /\ m.signal.type = "offer"
     THEN [R1 EXCEPT !.r.pc = "waitConnect", !.r.waits = (@ \ {"offer"}) \cup StartWait]
     ELSE R1

\* peer-disconnected is passed on; nothing subscribes to it
rOnOtherEvent(R, m) == IF m.ev = "peer-disconnected" THEN rForward(R) ELSE R

\* the peer emits 'signal'
rOnPeerSignal(R) ==
  LET R1 == [R EXCEPT !.p.out = Tail(@)]
  IN IF R.r.cleaning THEN R1
     ELSE rEmit(R1, Up("signal", R.r.code, NoRole, Head(R.p.out)))

\* createWriteStream(targetDir, filename) and the listeners of
\* handleFileReception: the file is created at the destination path
handleFileReception(R) ==
  [R EXCEPT !.r.pc = "receivingFile", !.r.sink = [SinkNone EXCEPT !.state = "open"],
            !.r.file = "partial"]

\* receiveCommand after waitForMetadata resolved with meta: a file is received
\* once the operator has agreed where --confirm asks for it, anything else is
\* received as text
rAfterMetadata(R, meta) ==
  LET R0 == [R EXCEPT !.r.returned = meta, !.r.waits = @ \ {"metadata"}]
  IN IF meta = "file"
     THEN IF R0.r.confirm THEN [R0 EXCEPT !.r.pc = "prompting"] ELSE handleFileReception(R0)
     ELSE [R0 EXCEPT !.r.pc = "receiving"]

\* a plausible slip: waitForMetadata always waits for the next frame
waitForMetadata_AlwaysWait(R) == [R EXCEPT !.r.pc = "waitMetadata"]

\* WebRTCReceiver.waitForMetadata, called once start() has resolved: metadata
\* that is already there resolves it at once
waitForMetadata(R) ==
  IF R.r.metadata # "none" THEN rAfterMetadata(R, R.r.metadata)
  ELSE [R EXCEPT !.r.pc = "waitMetadata", !.r.waits = @ \cup {"metadata"}]

\* promptConfirm resolves: the file is received, or receiveCommand returns
\* through its finally
\* a plausible slip: the file is opened before the operator is asked
rOnConfirm_OpenFirst(R, ok) ==
  IF ok THEN handleFileReception(R)
  ELSE [rFinally(handleFileReception(R)) EXCEPT !.r.pc = "declined"]

rOnConfirm(R, ok) ==
  IF ok THEN handleFileReception(R)
  ELSE [rFinally(R) EXCEPT !.r.pc = "declined"]

\* the peer emits 'connect': start() resolves and waitForMetadata begins
rOnPeerConnect(R) ==
  LET R1 == [R EXCEPT !.p.connected = TRUE, !.p.connecting = FALSE]
  IN IF R1.r.pc = "waitConnect" /\ ~R1.r.cleaning
     THEN [R1 EXCEPT !.r.pc = "waitMetadata",
                     !.r.waits = (@ \ {"start.timer", "start.connect"}) \cup {"metadata"}]
     ELSE R1

\* a frame that is the JSON of a metadata object
IsMetadataFrame(f) == Len(f.body) = 3 /\ f.body[1] = "{" /\ f.body[3] = "}"

\* chunk.toString(): UTF-8, a byte order mark is kept
BufferToString(bytes) == Utf8Decode(bytes)

\* JSON.parse(metaString): the type of a metadata object, "other" for any other
\* JSON value that is truthy ("4" stands for a number or a quoted string),
\* "falsy" for the JSON of 0, null, false or "", "invalid" for what is not JSON
JsonParse(chunk) ==
  LET s == IF chunk.type = "string" THEN chunk.body ELSE BufferToString(chunk.body)
  IN IF IsMetadataFrame([body |-> s]) THEN s[2]
     ELSE IF s = <<"4">> THEN "other"
     ELSE IF s = <<"0">> THEN "falsy"
     ELSE "invalid"

\* isEof of onData
isEof(chunk) == chunk.body = EOF_MARKER \/ chunk.body = LEGACY_EOF

\* a plausible slip: only the legacy spelling goes out
sendAck_LegacyOnly(R) ==
  IF R.p.gen # 0 /\ R.p.connected
  THEN [R EXCEPT !.acks = @ \o <<Str(LEGACY_ACK)>>, !.r.ackSent = TRUE,
                 !.r.ackFrames = @ \o <<Str(LEGACY_ACK)>>]
  ELSE R

\* WebRTCReceiver.sendAck: the canonical marker, then the legacy one for
\* older PWA builds
sendAck(R) ==
  IF R.p.gen # 0 /\ R.p.connected
  THEN [R EXCEPT !.acks = @ \o <<Str(ACK_MARKER), Str(LEGACY_ACK)>>, !.r.ackSent = TRUE,
                 !.r.ackFrames = @ \o <<Str(ACK_MARKER), Str(LEGACY_ACK)>>]
  ELSE R

RECURSIVE Flatten(_)
Flatten(chunks) ==
  IF chunks = <<>> THEN <<>> ELSE Head(chunks) \o Flatten(Tail(chunks))

\* what the session holds of the payload: the text accumulator, or the bytes
\* the write stream has taken
Payload(r) ==
  IF r.sink.state = "none" THEN r.text ELSE r.sink.disk \o Flatten(r.sink.queued)

\* the end marker is observed for the first time
noteEof(R) ==
  IF R.r.eofSeen THEN R ELSE [R EXCEPT !.r.eofSeen = TRUE, !.r.atEof = Payload(R.r)]

\* complete of handleTextReception, up to its linger timer
complete(R) ==
  IF R.r.finished THEN R
  ELSE [sendAck([R EXCEPT !.r.finished = TRUE]) EXCEPT !.r.pc = "lingering",
                                                       !.r.printed = R.r.text]

\* onData of handleTextReception
onData(R, chunk) ==
  IF isEof(chunk) THEN complete(noteEof(R))
  ELSE [R EXCEPT !.r.text = @ \o (IF chunk.type = "string" THEN chunk.body
                                  ELSE BufferToString(chunk.body))]

\* onError and onClose of handleTextReception
onTextEnd(R, error) == IF R.r.finished THEN R ELSE rFail(R, error)

\* fail of handleFileReception: the listeners go, the stream is destroyed with
\* what it had queued, the promise rejects; the file stays where it is
fail(R, error) ==
  IF R.r.finished THEN R
  ELSE rFail([R EXCEPT !.r.finished = TRUE, !.r.sink.state = "destroyed",
                       !.r.sink.queued = <<>>], error)

\* the callback given to stream.end: the acknowledgement goes out and the
\* linger timer is armed
endCallback(R) ==
  LET R1 == sendAck(R)
  IN IF R1.r.pc \in {"receivingFile", "flushing"} THEN [R1 EXCEPT !.r.pc = "lingering"]
     ELSE R1

\* the callbacks of end() that are pending run, each once
runEndCallbacks(R) ==
  IF R.r.sink.cbs = 0 THEN R ELSE [endCallback(R) EXCEPT !.r.sink.cbs = 0]

\* stream.end(callback): the stream finishes once its queue is written; on a
\* stream that has finished or failed the callback is called at once
streamEnd(R) ==
  IF R.r.sink.state = "open"
  THEN [R EXCEPT !.r.sink.state = "ending", !.r.sink.cbs = @ + 1]
  ELSE IF R.r.sink.state = "ending" THEN [R EXCEPT !.r.sink.cbs = @ + 1]
  ELSE IF R.r.sink.state = "finished" \/ R.r.strict THEN endCallback(R)
  ELSE R

\* the stream fails: it is destroyed and its queue dropped, the callbacks of
\* end() get the error where the runtime hands it to them, and 'error' reaches
\* onStreamError
streamFails(R) ==
  LET R1 == [R EXCEPT !.r.sink.state = "destroyed", !.r.sink.queued = <<>>,
                      !.r.sinkFailed = TRUE]
      R2 == IF R1.r.strict THEN runEndCallbacks(R1) ELSE [R1 EXCEPT !.r.sink.cbs = 0]
  IN IF R2.r.pc \in {"receivingFile", "flushing", "lingering"}
     THEN fail(R2, "sink-error") ELSE R2

\* stream.write(bufferChunk): queued on an open stream; a write after end() is
\* refused and, where the runtime is strict, fails the stream
streamWrite(R, chunk) ==
  IF R.r.sink.state = "open"
  THEN [R EXCEPT !.r.sink.queued = Append(@, chunk.body)]
  ELSE IF R.r.sink.state = "ending" /\ R.r.strict
    THEN [streamFails(R) EXCEPT !.r.sinkFailed = R.r.sinkFailed]
  ELSE R

\* onData of handleFileReception
onFileData(R, chunk) ==
  IF isEof(chunk)
  THEN LET R1 == noteEof(R)
       IN streamEnd([R1 EXCEPT !.r.finished = TRUE,
                               !.r.pc = IF @ = "receivingFile" THEN "flushing" ELSE @])
  ELSE streamWrite(R, chunk)

\* the listeners of the reception under way
Listening(r) == r.pc \in {"receiving", "receivingFile", "flushing", "lingering"}

\* this.emit('data', chunk): without a listener the chunk is gone
emitData(R, chunk) ==
  IF ~Listening(R.r) THEN [R EXCEPT !.r.lost = Append(@, chunk)]
  ELSE IF R.r.sink.state = "none" THEN onData(R, chunk)
  ELSE onFileData(R, chunk)

\* this.emit('error', err): the listener of the reception under way; without
\* one the emitter throws
emitError(R, error) ==
  IF ~Listening(R.r) THEN rFail(R, error)
  ELSE IF R.r.sink.state = "none" THEN onTextEnd(R, error)
  ELSE fail(R, error)

\* WebRTCReceiver.handleData
rHandleData(R, chunk) ==
  LET R0 == [R EXCEPT !.r.seen = Append(@, chunk)]
  IN IF R0.r.metadata = "none"
     THEN LET meta == JsonParse(chunk)
          IN IF meta = "invalid"
             THEN IF R0.r.pc = "waitMetadata"
                  THEN rFail([R0 EXCEPT !.r.waits = @ \ {"metadata"}], "bad-metadata")
                  ELSE emitError(R0, "bad-metadata")
             ELSE LET R1 == [R0 EXCEPT !.r.metadata = IF meta = "falsy" THEN "none" ELSE meta,
                                       !.r.metaCount = @ + 1,
                                       !.r.early = IF R0.r.pc = "started" /\ meta # "falsy"
                                                   THEN meta ELSE @]
                  IN IF R1.r.pc = "waitMetadata" THEN rAfterMetadata(R1, meta) ELSE R1
     ELSE emitData(R0, chunk)

\* the peer emits 'data'
rOnPeerData(R) ==
  LET R1 == [R EXCEPT !.p.inbox = Tail(@)]
  IN IF R.r.cleaning THEN R1 ELSE rHandleData(R1, Head(R.p.inbox))

\* the ACK_LINGER_MS timer fires: receiver.close(), the listeners go, the
\* promise resolves and receiveCommand leaves through its finally
rOnLinger(R) == [rFinally(R) EXCEPT !.r.pc = "done"]

\* the timer of the wait under way fires
rOnTimeout(R) ==
  rFail([R EXCEPT !.r.waits = @ \ {"peerJoined", "offer", "start.timer", "metadata"}],
        CASE R.r.pc = "waitPeerJoined" -> "peer-joined-timeout"
          [] R.r.pc = "waitOffer" -> "offer-timeout"
          [] R.r.pc = "waitConnect" -> "connect-timeout"
          [] OTHER -> "metadata-timeout")

\* the peer emits 'close': the handler of createPeer rejects a pending
\* waitForMetadata, cleans up and emits 'close' to the reception under way
rOnPeerClose(R) ==
  LET R0 == [R EXCEPT !.p.destroyed = TRUE, !.p.connected = FALSE, !.p.closing = FALSE,
                      !.p.connecting = FALSE, !.p.inbox = <<>>, !.p.out = <<>>]
      R1 == [R0 EXCEPT !.r.closedEarly = @ \/ (R.r.metaCount > 0 /\ ~R.r.eofSeen)]
  IN IF R.r.cleaning THEN R0
     ELSE IF R.r.pc = "waitMetadata"
       THEN rFail([R1 EXCEPT !.r.waits = @ \ {"metadata"}], "closed")
     ELSE IF R.r.pc = "receiving" THEN onTextEnd(rCleanup(R1), "closed-before-complete")
     ELSE IF R.r.pc \in {"receivingFile", "flushing"}
       THEN fail(rCleanup(R1), "closed-before-complete")
     ELSE rCleanup(R1)

\* the write stream has written the head of its queue to the file
sinkFlush(R) ==
  [R EXCEPT !.r.sink.disk = @ \o Head(R.r.sink.queued), !.r.sink.queued = Tail(@)]

\* the write stream emits 'finish': the file is complete and the callbacks of
\* end() run
sinkFinish(R) ==
  runEndCallbacks([R EXCEPT !.r.sink.state = "finished", !.r.file = "complete"])

\* dropped says that a socket was closed by its client with a forwarded event
\* still on its way
NetIdle ==
  [up |-> [c \in Conns |-> <<>>], down |-> [c \in Conns |-> <<>>], gone |-> {},
   opened |-> {}, dropped |-> FALSE]

StoryIdle == [retried |-> FALSE, gens |-> 0, broke |-> FALSE, lost |-> FALSE,
              paired |-> FALSE, sent |-> 0]

CommitSender(W) ==
  /\ snd' = W.s
  /\ sndPeer' = W.p
  /\ sndSig' = W.g

(***************************************************************************)
(* Actions of the broker specification                                     *)
(***************************************************************************)
\* socket.on('join-room', ...)
JoinRoom(s, payload) ==
  /\ s \in connected
  /\ Commit(handleJoin(BrokerState, s, payload))
  /\ lastEvent' = Event("join", s, payload.code, payload.role, NoSignal)
  /\ UNCHANGED connected
  /\ UNCHANGED clientVars

\* socket.on('signal', ...)
SignalEvent(s, payload) ==
  /\ s \in connected
  /\ Commit(handleSignal(BrokerState, s, payload))
  /\ lastEvent' = Event("signal", s, payload.code, NoRole, payload.signal)
  /\ UNCHANGED connected
  /\ UNCHANGED clientVars

\* socket.on('disconnect', ...)
Disconnect(s) ==
  /\ s \in connected
  /\ connected' = connected \ {s}
  /\ Commit(handleDisconnect(socketLeaveAll(BrokerState, s), s))
  /\ lastEvent' = Event("disconnect", s, NoCode, NoRole, NoSignal)
  /\ UNCHANGED clientVars

\* time passes: no armed timer is overdue, and every one comes a tick closer
Tick ==
  /\ timers # {}
  /\ \A t \in timers : t.left > 0
  /\ timers' = { [t EXCEPT !.left = @ - 1] : t \in timers }
  /\ emitted' = <<>>
  /\ lastEvent' = Event("tick", NoPeer, NoCode, NoRole, NoSignal)
  /\ prev' = Snapshot
  /\ UNCHANGED <<connected, rooms, adapter>>
  /\ UNCHANGED clientVars

\* a ROOM_TTL_MS timer fires
TimerFire(t) ==
  /\ t \in timers
  /\ t.left = 0
  /\ Commit(fireTimer(BrokerState, t))
  /\ lastEvent' = Event("expire", NoPeer, t.code, NoRole, NoSignal)
  /\ UNCHANGED connected
  /\ UNCHANGED clientVars

Init ==
  /\ connected = Conns
  /\ rooms = << >>
  /\ adapter = << >>
  /\ timers = {}
  /\ emitted = <<>>
  /\ lastEvent = Event("init", NoPeer, NoCode, NoRole, NoSignal)
  /\ prev = [rooms |-> << >>, timers |-> {}, adapter |-> << >>]
  /\ snd = SenderIdle
  /\ sndPeer = PeerNone
  /\ sndSig = SigIdle
  /\ rcv = ReceiverIdle
  /\ rcvPeer = PeerNone
  /\ net = NetIdle
  /\ story = StoryIdle

Next ==
  \/ \E s \in Conns, c \in RawCodes, r \in RoleInputs :
       JoinRoom(s, [code |-> c, role |-> r])
  \/ \E s \in Conns, c \in RawCodes, g \in Signals :
       SignalEvent(s, [code |-> c, signal |-> g])
  \/ \E s \in Conns : Disconnect(s)
  \/ \E t \in timers : TimerFire(t)
  \/ Tick

Spec == Init /\ [][Next]_vars

(***************************************************************************)
(* The sender's transfer against an arbitrary peer: SpecSend               *)
(***************************************************************************)
BrokerIdle ==
  /\ connected = {}
  /\ rooms = << >>
  /\ adapter = << >>
  /\ timers = {}
  /\ emitted = <<>>
  /\ lastEvent = Event("init", NoPeer, NoCode, NoRole, NoSignal)
  /\ prev = [rooms |-> << >>, timers |-> {}, adapter |-> << >>]

\* sendText(text) on a connected sender
SendText(text, build) ==
  /\ snd.pc = "connected"
  /\ snd.kind = "text"
  /\ CommitSender(sendText([SenderState EXCEPT !.s.build = build], text))
  /\ UNCHANGED beyondSender

\* sendFile(file) on a connected sender, up to the chunk loop
SendFileMetadata(file) ==
  /\ snd.pc = "connected"
  /\ snd.kind = "file"
  /\ CommitSender(sendFileMetadata(SenderState, file))
  /\ UNCHANGED beyondSender

SendFileChunk ==
  /\ snd.pc = "streaming"
  /\ snd.todo # <<>>
  /\ CommitSender(sendFileChunk(SenderState))
  /\ UNCHANGED beyondSender

SendFileEof ==
  /\ snd.pc = "streaming"
  /\ snd.todo = <<>>
  /\ CommitSender(sendFileEof(SenderState))
  /\ UNCHANGED beyondSender

\* a frame from the other side reaches the sender's peer and is buffered
FrameArrives(frame) ==
  /\ sndPeer.gen # 0
  /\ ~sndPeer.destroyed
  /\ sndPeer.arrived < MaxFrames
  /\ sndPeer' = [sndPeer EXCEPT !.inbox = Append(@, frame), !.arrived = @ + 1]
  /\ UNCHANGED <<snd, sndSig, beyondSender>>

PeerData ==
  /\ sndPeer.flowing
  /\ ~sndPeer.destroyed
  /\ sndPeer.inbox # <<>>
  /\ CommitSender(onPeerData(SenderState))
  /\ UNCHANGED beyondSender

PeerClose ==
  /\ sndPeer.gen # 0
  /\ ~sndPeer.destroyed
  /\ CommitSender(onPeerClose(SenderState))
  /\ UNCHANGED beyondSender

PeerError ==
  /\ sndPeer.gen # 0
  /\ ~sndPeer.destroyed
  /\ CommitSender(onPeerError(SenderState))
  /\ UNCHANGED beyondSender

AckTimeout ==
  /\ snd.ackTimer
  /\ CommitSender(onAckTimeout(SenderState))
  /\ UNCHANGED beyondSender

\* the user resets the session during the send
ResetSession(closeSync) ==
  /\ ~snd.torn
  /\ snd.result = "none"
  /\ CommitSender(resetSession(SenderState, closeSync))
  /\ UNCHANGED beyondSender

LateClose ==
  /\ snd.closeDue
  /\ CommitSender(onLateClose(SenderState))
  /\ UNCHANGED beyondSender

\* connect() has resolved: the peer is connected and nothing was sent yet
InitSend ==
  /\ BrokerIdle
  /\ \E k \in {"text", "file"} : snd = [SenderIdle EXCEPT !.pc = "connected", !.kind = k]
  /\ sndPeer = [PeerNone EXCEPT !.gen = 1, !.connected = TRUE]
  /\ sndSig = SigIdle
  /\ rcv = ReceiverIdle
  /\ rcvPeer = PeerNone
  /\ net = NetIdle
  /\ story = StoryIdle

NextSend ==
  \/ \E text \in Texts, build \in Builds : SendText(text, build)
  \/ \E file \in Files : SendFileMetadata(file)
  \/ SendFileChunk
  \/ SendFileEof
  \/ \E frame \in PeerFrames : FrameArrives(frame)
  \/ PeerData
  \/ PeerClose
  \/ PeerError
  \/ AckTimeout
  \/ \E closeSync \in BOOLEAN : ResetSession(closeSync)
  \/ LateClose

SpecSend == InitSend /\ [][NextSend]_vars

(***************************************************************************)
(* The sender and the receiver paired through the broker: SpecE2E.         *)
(* A text payload travels over one direct channel.  No room reaches its    *)
(* TTL during a run.                                                       *)
(***************************************************************************)


\* the next socket id: socket.io never reuses one
NewConn == CHOOSE c \in Conns \ net.opened : \A d \in Conns \ net.opened : c <= d

\* the events the SignalingClient constructor passes on to its subscribers
ForwardedEvents == {"signal", "peer-joined", "peer-disconnected", "room-expired"}

\* a client's emits reach its connection; socket.disconnect() ends delivery to it
EmitUp(N, c, ups) ==
  LET closes == \E i \in 1..Len(ups) : ups[i].ev = "disconnect"
  IN IF c = 0 THEN N
     ELSE [N EXCEPT !.up[c] = @ \o ups,
                    !.opened = @ \cup {c},
                    !.gone = IF closes THEN @ \cup {c} ELSE @,
                    !.down[c] = IF closes THEN <<>> ELSE @,
                    !.dropped = @ \/ (closes /\ \E i \in 1..Len(N.down[c]) :
                                                  N.down[c][i].ev \in ForwardedEvents)]

\* what the broker emitted reaches the sockets that still listen
deliver(N, out) ==
  [N EXCEPT !.down = [c \in Conns |->
     IF c \in N.gone THEN <<>>
     ELSE N.down[c] \o SelectSeq(out, LAMBDA m : m.to = c)]]

PopUp(c) == [net EXCEPT !.up[c] = Tail(@)]

PopDown(c) == [net EXCEPT !.down[c] = Tail(@)]

\* the two peers are the two ends of one channel
Linked ==
  /\ sndPeer.gen # 0 /\ ~sndPeer.destroyed
  /\ rcvPeer.gen # 0 /\ ~rcvPeer.destroyed
  /\ rcvPeer.remote = sndPeer.gen

\* nothing is in flight and no step of either program is due: only a timer
\* can fire next
Quiescent ==
  /\ \A c \in Conns : net.up[c] = <<>> /\ net.down[c] = <<>>
  /\ \A p \in {sndPeer, rcvPeer} :
       /\ p.out = <<>>
       /\ ~p.connecting
       /\ ~p.closing
       /\ (p.inbox = <<>> \/ ~(p.flowing /\ p.connected))
  /\ snd.pc \notin {"connected", "streaming"}
  /\ rcv.pc # "lingering"
  /\ rcv.sink.state # "ending"
  /\ rcv.sink.queued = <<>>

\* io.on('connection', ...)
BrokerConnection(c) ==
  /\ net.up[c] # <<>>
  /\ Head(net.up[c]).ev = "connect"
  /\ connected' = connected \cup {c}
  /\ Commit(BrokerState)
  /\ lastEvent' = Event("connection", c, NoCode, NoRole, NoSignal)
  /\ net' = deliver(PopUp(c), <<Msg(c, "connect", NoCode, NoPeer, NoSignal)>>)
  /\ UNCHANGED <<snd, sndPeer, sndSig, rcv, rcvPeer, story>>

\* socket.on('join-room', ...) for a join in flight
BrokerJoin(c) ==
  /\ net.up[c] # <<>>
  /\ Head(net.up[c]).ev = "join-room"
  /\ c \in connected
  /\ LET m == Head(net.up[c])
         B == handleJoin(BrokerState, c, [code |-> m.code, role |-> m.role])
     IN /\ Commit(B)
        /\ lastEvent' = Event("join", c, m.code, m.role, NoSignal)
        /\ net' = deliver(PopUp(c), B.out)
  /\ UNCHANGED <<connected, snd, sndPeer, sndSig, rcv, rcvPeer, story>>

\* socket.on('signal', ...) for a signal in flight
BrokerSignal(c) ==
  /\ net.up[c] # <<>>
  /\ Head(net.up[c]).ev = "signal"
  /\ c \in connected
  /\ LET m == Head(net.up[c])
         B == handleSignal(BrokerState, c, [code |-> m.code, signal |-> m.signal])
     IN /\ Commit(B)
        /\ lastEvent' = Event("signal", c, m.code, NoRole, m.signal)
        /\ net' = deliver(PopUp(c), B.out)
  /\ UNCHANGED <<connected, snd, sndPeer, sndSig, rcv, rcvPeer, story>>

\* socket.on('disconnect', ...) for a socket its client closed
BrokerDisconnect(c) ==
  /\ net.up[c] # <<>>
  /\ Head(net.up[c]).ev = "disconnect"
  /\ c \in connected
  /\ connected' = connected \ {c}
  /\ LET B == handleDisconnect(socketLeaveAll(BrokerState, c), c)
     IN /\ Commit(B)
        /\ lastEvent' = Event("disconnect", c, NoCode, NoRole, NoSignal)
        /\ net' = deliver(PopUp(c), B.out)
  /\ UNCHANGED <<snd, sndPeer, sndSig, rcv, rcvPeer, story>>

\* what a step of the sender does to the receiver's end of the channel: the
\* frames it sent arrive, a destroyed or replaced peer closes the channel, an
\* accepted answer lets both ends connect
channelFromSender(W) ==
  LET n == Len(snd.sent)
      new == IF Len(W.s.sent) > n THEN SubSeq(W.s.sent, n + 1, Len(W.s.sent)) ELSE <<>>
      closes == W.p.gen # sndPeer.gen \/ W.p.destroyed
  IN IF ~Linked THEN rcvPeer
     ELSE [rcvPeer EXCEPT !.inbox = IF closes THEN @
                                    ELSE @ \o [k \in 1..Len(new) |-> Wire(new[k])],
                          !.closing = @ \/ closes,
                          !.connecting = @ \/ (W.p.connecting /\ ~sndPeer.connecting)]

\* a step of the sender: N is the network it left, c the socket it emitted on
SenderStep(W, N, c) ==
  /\ CommitSender(W)
  /\ net' = EmitUp(N, c, W.up)
  /\ rcvPeer' = channelFromSender(W)
  /\ UNCHANGED <<rcv, brokerVars>>

\* the head of the events in flight to the sender's socket
SenderEvent == Head(net.down[sndSig.socket])

HasSenderEvent(evs) ==
  /\ sndSig.socket # 0
  /\ net.down[sndSig.socket] # <<>>
  /\ SenderEvent.ev \in evs

\* App.sendText: ensureSender creates the WebRTCSender and connects it
\* the user sends a text or a file of some size
SenderStart(kind, size) ==
  /\ snd.pc = "idle"
  /\ net.opened # Conns
  /\ LET W == appSend(SenderState, NewConn, kind, size)
     IN SenderStep(W, net, W.g.socket)
  /\ UNCHANGED story

SenderSocketConnect ==
  /\ HasSenderEvent({"connect"})
  /\ SenderStep(onSocketConnect(SenderState), PopDown(sndSig.socket), sndSig.socket)
  /\ UNCHANGED story

SenderRoomJoined(closeSync) ==
  /\ HasSenderEvent({"room-joined"})
  /\ SenderStep(onRoomJoined(SenderState, SenderEvent, story.gens + 1, closeSync),
                PopDown(sndSig.socket), sndSig.socket)
  /\ story' = [story EXCEPT !.gens = @ + 1]

SenderJoinRejected ==
  /\ HasSenderEvent({"room-full", "room-not-found", "room-expired"})
  /\ SenderStep(onJoinRejected(SenderState, SenderEvent),
                PopDown(sndSig.socket), sndSig.socket)
  /\ UNCHANGED story

SenderPeerJoined(closeSync) ==
  /\ HasSenderEvent({"peer-joined"})
  /\ SenderStep(onPeerJoined(SenderState, story.gens + 1, closeSync),
                PopDown(sndSig.socket), sndSig.socket)
  /\ story' = [story EXCEPT !.gens = @ + 1]

\* the answer connects the channel only while the peer that gave it lives
SenderSignalIn ==
  /\ HasSenderEvent({"signal"})
  /\ SenderStep(IF Linked THEN onSignalIn(SenderState, SenderEvent) ELSE SenderState,
                PopDown(sndSig.socket), sndSig.socket)
  /\ UNCHANGED story

\* events the sender has no listener for
SenderOtherEvent ==
  /\ HasSenderEvent({"peer-disconnected", "error"})
  /\ SenderStep(SenderState, PopDown(sndSig.socket), sndSig.socket)
  /\ UNCHANGED story

\* the timer of the signaling client fires before the broker's answer
SenderJoinTimeout ==
  /\ sndSig.joinWait
  /\ SenderStep(onJoinTimeout(SenderState), net, sndSig.socket)
  /\ UNCHANGED story

SenderPeerSignal ==
  /\ sndPeer.out # <<>>
  /\ ~sndPeer.destroyed
  /\ SenderStep(onPeerSignal(SenderState), net, sndSig.socket)
  /\ UNCHANGED story

SenderPeerConnect ==
  /\ sndPeer.connecting
  /\ ~sndPeer.destroyed
  /\ SenderStep(onPeerConnect(SenderState), net, sndSig.socket)
  /\ UNCHANGED story

SenderConnectTimeout ==
  /\ sndSig.connWait
  /\ Quiescent
  /\ SenderStep(onConnectTimeout(SenderState), net, sndSig.socket)
  /\ UNCHANGED story

\* App.sendText after ensureSender: sender.sendText(textValue)
SenderSendText(text, build) ==
  /\ snd.pc = "connected"
  /\ snd.kind = "text"
  /\ SenderStep(sendText([SenderState EXCEPT !.s.build = build], text), net, sndSig.socket)
  /\ UNCHANGED story

\* App.sendFile after ensureSender: sender.sendFile(selectedFile)
SenderSendFileMetadata(file) ==
  /\ snd.pc = "connected"
  /\ snd.kind = "file"
  /\ SenderStep(sendFileMetadata(SenderState, file), net, sndSig.socket)
  /\ UNCHANGED story

SenderSendFileChunk ==
  /\ snd.pc = "streaming"
  /\ snd.todo # <<>>
  /\ SenderStep(sendFileChunk(SenderState), net, sndSig.socket)
  /\ UNCHANGED story

SenderSendFileEof ==
  /\ snd.pc = "streaming"
  /\ snd.todo = <<>>
  /\ SenderStep(sendFileEof(SenderState), net, sndSig.socket)
  /\ UNCHANGED story

\* App.sendText after sender.sendText resolved: the sender is destroyed
afterSend(W) == IF W.s.result = "success" /\ snd.result = "none" THEN destroy(W) ELSE W

SenderPeerData ==
  /\ sndPeer.flowing
  /\ sndPeer.connected
  /\ sndPeer.inbox # <<>>
  /\ SenderStep(afterSend(onPeerData(SenderState)), net, sndSig.socket)
  /\ UNCHANGED story

\* the channel closed under the sender: frames that arrived are emitted first
SenderPeerClose ==
  /\ sndPeer.closing
  /\ ~sndPeer.destroyed
  /\ sndPeer.inbox = <<>> \/ ~sndPeer.flowing
  /\ SenderStep(onPeerClose(SenderState), net, sndSig.socket)
  /\ UNCHANGED story

SenderAckTimeout ==
  /\ snd.ackTimer
  /\ Quiescent
  /\ SenderStep(onAckTimeout(SenderState), net, sndSig.socket)
  /\ UNCHANGED story

\* the user sends again after a failure: ensureSender destroys the sender and
\* connects a new one for the same code
SenderRetry ==
  /\ snd.pc = "failed"
  /\ net.opened # Conns
  /\ LET W1 == destroy(SenderState)
         W2 == appSend([s |-> SenderIdle, p |-> PeerNone, g |-> SigIdle, up |-> <<>>],
                       NewConn, snd.kind, snd.size)
     IN /\ CommitSender(W2)
        /\ net' = EmitUp(EmitUp(net, sndSig.socket, W1.up), NewConn, W2.up)
        /\ rcvPeer' = channelFromSender(W1)
  /\ story' = [story EXCEPT !.retried = TRUE]
  /\ UNCHANGED <<rcv, brokerVars>>

\* what a step of the receiver does to the sender's end of the channel
channelFromReceiver(R) ==
  LET closes == R.p.gen = 0 \/ R.p.destroyed
  IN IF ~Linked THEN sndPeer
     ELSE [sndPeer EXCEPT !.inbox = @ \o R.acks, !.closing = @ \/ closes]

\* a step of the receiver
ReceiverStep(R, N, c) ==
  /\ rcv' = R.r
  /\ rcvPeer' = R.p
  /\ net' = EmitUp(N, c, R.up)
  /\ sndPeer' = channelFromReceiver(R)
  /\ UNCHANGED <<snd, sndSig, brokerVars>>

ReceiverEvent == Head(net.down[rcv.socket])

HasReceiverEvent(evs) ==
  /\ rcv.socket # 0
  /\ rcv.socket \notin net.gone
  /\ net.down[rcv.socket] # <<>>
  /\ ReceiverEvent.ev \in evs

\* pinq receive <code> [--confirm]
ReceiverStart(confirm) ==
  /\ rcv.pc = "idle"
  /\ net.opened # Conns
  /\ ReceiverStep(rOpen([ReceiverState EXCEPT !.r.confirm = confirm], NewConn, CliInput),
                  net, NewConn)
  /\ UNCHANGED story

ReceiverSocketConnect ==
  /\ HasReceiverEvent({"connect"})
  /\ ReceiverStep(rOnSocketConnect(ReceiverState), PopDown(rcv.socket), rcv.socket)
  /\ UNCHANGED story

ReceiverRoomJoined ==
  /\ HasReceiverEvent({"room-joined"})
  /\ ReceiverStep(rOnRoomJoined(ReceiverState, ReceiverEvent),
                  PopDown(rcv.socket), rcv.socket)
  /\ story' = [story EXCEPT !.paired = (snd.pc = "connecting" /\ ~story.retried)]

ReceiverJoinRejected ==
  /\ HasReceiverEvent({"room-full", "room-not-found", "room-expired"})
  /\ ReceiverStep(rOnJoinRejected(ReceiverState, ReceiverEvent),
                  PopDown(rcv.socket), rcv.socket)
  /\ UNCHANGED story

ReceiverPeerJoined ==
  /\ HasReceiverEvent({"peer-joined"})
  /\ ReceiverStep(rOnPeerJoined(ReceiverState, ReceiverEvent),
                  PopDown(rcv.socket), rcv.socket)
  /\ UNCHANGED story

ReceiverSignalIn ==
  /\ HasReceiverEvent({"signal"})
  /\ ReceiverStep(rOnSignal(ReceiverState, ReceiverEvent),
                  PopDown(rcv.socket), rcv.socket)
  /\ UNCHANGED story

\* events the receiver has no listener for
ReceiverOtherEvent ==
  /\ HasReceiverEvent({"peer-disconnected", "error"})
  /\ ReceiverStep(rOnOtherEvent(ReceiverState, ReceiverEvent), PopDown(rcv.socket), rcv.socket)
  /\ UNCHANGED story

ReceiverPeerSignal ==
  /\ rcvPeer.out # <<>>
  /\ ~rcvPeer.destroyed
  /\ ReceiverStep(rOnPeerSignal(ReceiverState), net, rcv.socket)
  /\ UNCHANGED story

ReceiverPeerConnect ==
  /\ rcvPeer.connecting
  /\ ~rcvPeer.destroyed
  /\ ReceiverStep(rOnPeerConnect(ReceiverState), net, rcv.socket)
  /\ UNCHANGED story

ReceiverPeerData ==
  /\ rcvPeer.connected
  /\ rcvPeer.inbox # <<>>
  /\ ReceiverStep(rOnPeerData(ReceiverState), net, rcv.socket)
  /\ UNCHANGED story

\* the operator answers the --confirm prompt
ReceiverConfirm(ok) ==
  /\ rcv.pc = "prompting"
  /\ ReceiverStep(rOnConfirm(ReceiverState, ok), net, rcv.socket)
  /\ UNCHANGED story

ReceiverSinkFlush ==
  /\ rcv.sink.state \in {"open", "ending"}
  /\ rcv.sink.queued # <<>>
  /\ ReceiverStep(sinkFlush(ReceiverState), net, rcv.socket)
  /\ UNCHANGED story

ReceiverSinkFinish ==
  /\ rcv.sink.state = "ending"
  /\ rcv.sink.queued = <<>>
  /\ ReceiverStep(sinkFinish(ReceiverState), net, rcv.socket)
  /\ UNCHANGED story

\* a write or the final flush fails
ReceiverSinkError ==
  /\ rcv.sink.state \in {"open", "ending"}
  /\ ReceiverStep(streamFails(ReceiverState), net, rcv.socket)
  /\ UNCHANGED story

ReceiverLinger ==
  /\ rcv.pc = "lingering"
  /\ ReceiverStep(rOnLinger(ReceiverState), net, rcv.socket)
  /\ UNCHANGED story

ReceiverTimeout ==
  /\ rcv.pc \in {"waitPeerJoined", "waitOffer", "waitConnect", "waitMetadata"}
  /\ Quiescent
  /\ ReceiverStep(rOnTimeout(ReceiverState), net, rcv.socket)
  /\ UNCHANGED story

\* the channel closed under the receiver: frames that arrived are emitted first
ReceiverPeerClose ==
  /\ rcvPeer.closing
  /\ ~rcvPeer.destroyed
  /\ rcvPeer.inbox = <<>> \/ ~rcvPeer.connected
  /\ ReceiverStep(rOnPeerClose(ReceiverState), net, rcv.socket)
  /\ UNCHANGED story

\* the connection between the two peers breaks
ChannelBreaks ==
  /\ Linked
  /\ sndPeer.connected /\ rcvPeer.connected
  /\ ~story.broke
  /\ sndPeer' = [sndPeer EXCEPT !.closing = TRUE]
  /\ rcvPeer' = [rcvPeer EXCEPT !.closing = TRUE]
  /\ story' = [story EXCEPT !.broke = TRUE]
  /\ UNCHANGED <<snd, sndSig, rcv, net, brokerVars>>

\* channelConfig { maxPacketLifeTime: 3000 }: a frame that could not be
\* delivered in time is given up
FrameLost(toSender) ==
  /\ Linked
  /\ ~story.lost
  /\ IF toSender
     THEN /\ sndPeer.inbox # <<>>
          /\ sndPeer' = [sndPeer EXCEPT !.inbox = Tail(@)]
          /\ UNCHANGED rcvPeer
     ELSE /\ rcvPeer.inbox # <<>>
          /\ rcvPeer' = [rcvPeer EXCEPT !.inbox = Tail(@)]
          /\ UNCHANGED sndPeer
  /\ story' = [story EXCEPT !.lost = TRUE]
  /\ UNCHANGED <<snd, sndSig, rcv, net, brokerVars>>

InitE2E ==
  /\ BrokerIdle
  /\ snd = SenderIdle
  /\ sndPeer = PeerNone
  /\ sndSig = SigIdle
  /\ rcv = ReceiverIdle
  /\ rcvPeer = PeerNone
  /\ net = NetIdle
  /\ story = StoryIdle

NextE2E ==
  \/ \E c \in Conns : BrokerConnection(c)
  \/ \E c \in Conns : BrokerJoin(c)
  \/ \E c \in Conns : BrokerSignal(c)
  \/ \E c \in Conns : BrokerDisconnect(c)
  \/ \E kind \in {"text", "file"}, size \in PayloadSizes : SenderStart(kind, size)
  \/ SenderSocketConnect
  \/ \E closeSync \in BOOLEAN : SenderRoomJoined(closeSync)
  \/ SenderJoinRejected
  \/ SenderJoinTimeout
  \/ \E closeSync \in BOOLEAN : SenderPeerJoined(closeSync)
  \/ SenderSignalIn
  \/ SenderOtherEvent
  \/ SenderPeerSignal
  \/ SenderPeerConnect
  \/ SenderConnectTimeout
  \/ \E text \in Texts, build \in Builds : SenderSendText(text, build)
  \/ \E file \in Files : SenderSendFileMetadata(file)
  \/ SenderSendFileChunk
  \/ SenderSendFileEof
  \/ SenderPeerData
  \/ SenderPeerClose
  \/ SenderAckTimeout
  \/ SenderRetry
  \/ \E confirm \in BOOLEAN : ReceiverStart(confirm)
  \/ ReceiverSocketConnect
  \/ ReceiverRoomJoined
  \/ ReceiverJoinRejected
  \/ ReceiverPeerJoined
  \/ ReceiverSignalIn
  \/ ReceiverOtherEvent
  \/ ReceiverPeerSignal
  \/ ReceiverPeerConnect
  \/ ReceiverPeerData
  \/ \E ok \in BOOLEAN : ReceiverConfirm(ok)
  \/ ReceiverSinkFlush
  \/ ReceiverSinkFinish
  \/ ReceiverSinkError
  \/ ReceiverLinger
  \/ ReceiverTimeout
  \/ ReceiverPeerClose
  \/ ChannelBreaks
  \/ \E toSender \in BOOLEAN : FrameLost(toSender)

SpecE2E == InitE2E /\ [][NextE2E]_vars

(***************************************************************************)
(* The CLI's signaling client and the start of its receiver against a      *)
(* broker that may send any event, for the own code or for another one,    *)
(* in any order, or stay silent.                                           *)
(***************************************************************************)
\* events the broker sends at most
MaxSigEvents == 4

\* a code other than the one typed into the CLI
OtherCode == <<"B">>

SigEvents ==
  { [ev |-> e, code |-> c, signal |-> NoSignal] :
      e \in {"room-joined", "room-full", "room-not-found", "room-expired",
             "peer-joined", "peer-disconnected"},
      c \in {clientCode(CliInput), OtherCode} }
  \cup { [ev |-> "signal", code |-> clientCode(CliInput), signal |-> s] : s \in Signals }

\* the transport to the broker is established
SigBrokerAccepts ==
  /\ rcv.pc = "wsConnecting"
  /\ net.down[rcv.socket] = <<>>
  /\ net' = deliver(net, <<Msg(rcv.socket, "connect", NoCode, NoPeer, NoSignal)>>)
  /\ UNCHANGED <<snd, sndPeer, sndSig, rcv, rcvPeer, story, brokerVars>>

\* the broker emits an event to the receiver's socket
SigBrokerSends(m) ==
  /\ rcv.socket # 0
  /\ story.sent < MaxSigEvents
  /\ net' = deliver(net, <<Msg(rcv.socket, m.ev, m.code, NoPeer, m.signal)>>)
  /\ story' = [story EXCEPT !.sent = @ + 1]
  /\ UNCHANGED <<snd, sndPeer, sndSig, rcv, rcvPeer, brokerVars>>

\* the timer of connect() or of join fires
ReceiverJoinTimeout ==
  /\ rcv.pc \in {"wsConnecting", "joining"}
  /\ ReceiverStep(rOnJoinTimeout(ReceiverState), net, rcv.socket)
  /\ UNCHANGED story

\* the timer of a wait of start() fires, whatever is on its way
ReceiverStartTimeout ==
  /\ rcv.pc \in {"waitPeerJoined", "waitOffer", "waitConnect"}
  /\ ReceiverStep(rOnTimeout(ReceiverState), net, rcv.socket)
  /\ UNCHANGED story

NextSig ==
  \/ ReceiverStart(FALSE)
  \/ SigBrokerAccepts
  \/ \E m \in SigEvents : SigBrokerSends(m)
  \/ ReceiverSocketConnect
  \/ ReceiverRoomJoined
  \/ ReceiverJoinRejected
  \/ ReceiverPeerJoined
  \/ ReceiverSignalIn
  \/ ReceiverOtherEvent
  \/ ReceiverPeerSignal
  \/ ReceiverJoinTimeout
  \/ ReceiverStartTimeout

SpecSig == InitE2E /\ [][NextSig]_vars

(***************************************************************************)
(* Shape of the broker state                                               *)
(***************************************************************************)
(* The receiver's reception alone: start() has resolved, receiveCommand    *)
(* is about to call waitForMetadata, and an arbitrary peer puts frames on  *)
(* the channel, which delivers them in order.                              *)
(***************************************************************************)
\* frames the other side puts on the channel towards the receiver at most
MaxSent == 4

\* "a" and "x" are chunks that are not JSON, "4" a chunk that is the JSON of a
\* number, "0" one that is the JSON of a falsy value
RecvFrames ==
  { MetadataFrame("text"), MetadataFrame("file"), Str(<<"a">>), Bytes(<<"x">>),
    Str(<<"4">>), Str(<<"0">>), Str(EOF_MARKER), Bytes(LEGACY_EOF) }

\* everything but the receiver
beyondReceiver ==
  <<connected, rooms, adapter, timers, emitted, lastEvent, prev, snd, sndPeer, sndSig,
    net, story>>

CommitReceiver(R) ==
  /\ rcv' = R.r
  /\ rcvPeer' = R.p

\* a frame from the other side reaches the receiver's peer
RecvFrameArrives(frame) ==
  /\ rcvPeer.connected
  /\ rcvPeer.arrived < MaxSent
  /\ rcvPeer' = [rcvPeer EXCEPT !.inbox = Append(@, frame), !.arrived = @ + 1]
  /\ UNCHANGED <<rcv, beyondReceiver>>

RecvPeerData ==
  /\ rcvPeer.connected
  /\ rcvPeer.inbox # <<>>
  /\ CommitReceiver(rOnPeerData(ReceiverState))
  /\ UNCHANGED beyondReceiver

\* the operator answers the --confirm prompt
RecvConfirm(ok) ==
  /\ rcv.pc = "prompting"
  /\ CommitReceiver(rOnConfirm(ReceiverState, ok))
  /\ UNCHANGED beyondReceiver

\* the channel closes; the frames that arrived are emitted first
RecvPeerClose ==
  /\ rcvPeer.gen # 0
  /\ ~rcvPeer.destroyed
  /\ rcvPeer.inbox = <<>>
  /\ CommitReceiver(rOnPeerClose(ReceiverState))
  /\ UNCHANGED beyondReceiver

RecvSinkFlush ==
  /\ rcv.sink.state \in {"open", "ending"}
  /\ rcv.sink.queued # <<>>
  /\ CommitReceiver(sinkFlush(ReceiverState))
  /\ UNCHANGED beyondReceiver

RecvSinkFinish ==
  /\ rcv.sink.state = "ending"
  /\ rcv.sink.queued = <<>>
  /\ CommitReceiver(sinkFinish(ReceiverState))
  /\ UNCHANGED beyondReceiver

\* a write or the final flush fails
RecvSinkError ==
  /\ rcv.sink.state \in {"open", "ending"}
  /\ CommitReceiver(streamFails(ReceiverState))
  /\ UNCHANGED beyondReceiver

RecvLinger ==
  /\ rcv.pc = "lingering"
  /\ CommitReceiver(rOnLinger(ReceiverState))
  /\ UNCHANGED beyondReceiver

\* receiveCommand goes on after start() and calls waitForMetadata
RecvWaitForMetadata ==
  /\ rcv.pc = "started"
  /\ CommitReceiver(waitForMetadata(ReceiverState))
  /\ UNCHANGED beyondReceiver

\* the METADATA_TIMEOUT_MS timer of waitForMetadata fires
RecvMetadataTimeout ==
  /\ rcv.pc = "waitMetadata"
  /\ rcvPeer.inbox = <<>>
  /\ CommitReceiver(rOnTimeout(ReceiverState))
  /\ UNCHANGED beyondReceiver

InitRecv ==
  /\ BrokerIdle
  /\ snd = SenderIdle
  /\ sndPeer = PeerNone
  /\ sndSig = SigIdle
  /\ \E cf \in BOOLEAN, st \in BOOLEAN :
        rcv = [ReceiverIdle EXCEPT !.pc = "started", !.joined = TRUE,
                                   !.waits = {"connect.error", "start.error"},
                                   !.sigWired = TRUE, !.confirm = cf, !.strict = st]
  /\ rcvPeer = [PeerNone EXCEPT !.gen = 1, !.connected = TRUE, !.flowing = TRUE]
  /\ net = NetIdle
  /\ story = StoryIdle

NextRecv ==
  \/ \E frame \in RecvFrames : RecvFrameArrives(frame)
  \/ RecvPeerData
  \/ \E ok \in BOOLEAN : RecvConfirm(ok)
  \/ RecvPeerClose
  \/ RecvSinkFlush
  \/ RecvSinkFinish
  \/ RecvSinkError
  \/ RecvLinger
  \/ RecvWaitForMetadata
  \/ RecvMetadataTimeout

SpecRecv == InitRecv /\ [][NextRecv]_vars

(***************************************************************************)
(* The broker with timers that fire: time passes while nothing is due, and *)
(* a timer that is due fires, room by room.  The clients are well-behaved: *)
(* they name a room and a role in every payload.                           *)
(***************************************************************************)
\* the connections that take part
LiveConns == 1..(MaxConns - 1)

\* the raw codes of the payloads: one per room
LiveCodes == { r \in RawCodes : ~Falsy(normalizeCode(r)) }

NextLive ==
  \/ \E s \in LiveConns, c \in LiveCodes, r \in {"creator", "guest"} :
       JoinRoom(s, [code |-> c, role |-> r])
  \/ \E s \in LiveConns, c \in LiveCodes : SignalEvent(s, [code |-> c, signal |-> Offer(1)])
  \/ \E s \in LiveConns : Disconnect(s)
  \/ \E t \in timers : TimerFire(t)
  \/ Tick

SpecLive ==
  /\ Init
  /\ [][NextLive]_vars
  /\ WF_vars(Tick)
  /\ \A c \in Codes : WF_vars(\E t \in timers : t.code = c /\ TimerFire(t))

(***************************************************************************)
TypeOK ==
  /\ connected \subseteq Conns
  /\ DOMAIN rooms \subseteq Codes
  /\ \A c \in DOMAIN rooms : rooms[c].sockets \subseteq Conns
  /\ \A c \in DOMAIN adapter : adapter[c] \subseteq connected

(***************************************************************************)
(* Properties of the broker.  prev is the registry before the last event,  *)
(* lastEvent the event, emitted what the handler sent.                     *)
(***************************************************************************)
\* the code the last event names, as the broker reads it
EvCode == normalizeCode(lastEvent.raw)

\* the members of a room in a registry, none when the room is not registered
MembersIn(R, c) == IF c \in DOMAIN R THEN R[c].sockets ELSE {}

\* the messages a set of sockets gets, one each, in the order of emission
ToEach(S, ev, code, peerId, signal) ==
  [i \in 1..Cardinality(S) |-> Msg(SetToSeq(S)[i], ev, code, peerId, signal)]

RegistryUnchanged == rooms = prev.rooms /\ timers = prev.timers /\ adapter = prev.adapter

\* C3: in every reachable broker state every room has at most 2 members.
C3_AtMostTwoMembers ==
  \A c \in DOMAIN rooms : Cardinality(rooms[c].sockets) <= 2

\* a third connection has just asked to join a room that holds two members
C3_Witness ==
  /\ lastEvent.op = "join"
  /\ EvCode \in DOMAIN rooms
  /\ Cardinality(rooms[EvCode].sockets) = 2
  /\ lastEvent.conn \notin rooms[EvCode].sockets

\* C4: every registered room has at least one member; a room whose last member
\* disconnects is gone after that very step.
C4_NoEmptyRoom ==
  /\ \A c \in DOMAIN rooms : rooms[c].sockets # {}
  /\ lastEvent.op = "disconnect" =>
       \A c \in DOMAIN prev.rooms :
          prev.rooms[c].sockets = {lastEvent.conn} => c \notin DOMAIN rooms

\* the last member of a room has just disconnected, while another room lives on
C4_Witness ==
  /\ lastEvent.op = "disconnect"
  /\ \E c \in DOMAIN prev.rooms :
        prev.rooms[c].sockets = {lastEvent.conn} /\ c \notin DOMAIN rooms
  /\ rooms # << >>

\* C5: a join-room with role guest, or without role, for a code that has no room
\* is answered with room-not-found to the joiner alone, and the registry (rooms,
\* timers, socket.io rooms) stays as it was.
C5_GuestJoinUnknownRoom ==
  ( /\ lastEvent.op = "join"
    /\ lastEvent.role \in {"guest", "none"}
    /\ ~Falsy(EvCode)
    /\ EvCode \notin DOMAIN prev.rooms )
  => ( /\ emitted = <<Msg(lastEvent.conn, "room-not-found", EvCode, NoPeer, NoSignal)>>
       /\ RegistryUnchanged )

\* a join without role for an unknown code was refused while another room exists
C5_Witness ==
  /\ lastEvent.op = "join"
  /\ lastEvent.role = "none"
  /\ ~Falsy(EvCode)
  /\ EvCode \notin DOMAIN prev.rooms
  /\ emitted = <<Msg(lastEvent.conn, "room-not-found", EvCode, NoPeer, NoSignal)>>
  /\ rooms # << >>

\* C6: a join-room of either role from a third connection for a room that has two
\* members is answered with room-full to the joiner alone; members, timers and
\* socket.io rooms stay as they were and the two members are sent nothing.
C6_ThirdJoinRoomFull ==
  ( /\ lastEvent.op = "join"
    /\ ~Falsy(EvCode)
    /\ Cardinality(MembersIn(prev.rooms, EvCode)) = 2
    /\ lastEvent.conn \notin MembersIn(prev.rooms, EvCode) )
  => ( /\ emitted = <<Msg(lastEvent.conn, "room-full", EvCode, NoPeer, NoSignal)>>
       /\ RegistryUnchanged )

\* a creator join of a third connection was refused with room-full while the
\* room's timer had already run for a while
C6_Witness ==
  /\ lastEvent.op = "join"
  /\ lastEvent.role = "creator"
  /\ Cardinality(MembersIn(prev.rooms, EvCode)) = 2
  /\ lastEvent.conn \notin MembersIn(prev.rooms, EvCode)
  /\ emitted = <<Msg(lastEvent.conn, "room-full", EvCode, NoPeer, NoSignal)>>
  /\ \E t \in timers : t.code = EvCode /\ t.left < TtlTicks

\* C7: a creator join on a code with no room creates the room with the joiner as
\* its only member; a join is answered with room-joined exactly when the joiner
\* is added to the room, and then room-joined{code} goes to the joiner and
\* peer-joined{peerId, code} to every other member, never to the joiner.
C7_SuccessfulJoin ==
  lastEvent.op = "join" =>
    LET s == lastEvent.conn
        code == EvCode
        joined == \E i \in 1..Len(emitted) : emitted[i].ev = "room-joined"
    IN /\ ( /\ lastEvent.role = "creator"
            /\ ~Falsy(code)
            /\ code \notin DOMAIN prev.rooms )
          => ( joined /\ MembersIn(rooms, code) = {s} )
       /\ joined =>
            /\ MembersIn(rooms, code) = MembersIn(prev.rooms, code) \cup {s}
            /\ \A c \in DOMAIN prev.rooms :
                 c # code => MembersIn(rooms, c) = prev.rooms[c].sockets
            /\ emitted = <<Msg(s, "room-joined", code, NoPeer, NoSignal)>>
                           \o ToEach(MembersIn(rooms, code) \ {s},
                                     "peer-joined", code, s, NoSignal)
       /\ ~joined =>
            \A c \in DOMAIN rooms : MembersIn(rooms, c) = MembersIn(prev.rooms, c)

\* a second member has just joined: room-joined to it, peer-joined to the first
C7_Witness ==
  /\ lastEvent.op = "join"
  /\ Len(emitted) = 2
  /\ emitted[1] = Msg(lastEvent.conn, "room-joined", EvCode, NoPeer, NoSignal)
  /\ emitted[2].ev = "peer-joined"
  /\ emitted[2].to # lastEvent.conn
  /\ MembersIn(rooms, EvCode) = {lastEvent.conn, emitted[2].to}
  /\ MembersIn(prev.rooms, EvCode) = {emitted[2].to}

\* C8: a signal sent by a member of a room is delivered, with exactly the payload
\* sent, to the other member of that room and to no one else.
C8_SignalRelay ==
  ( /\ lastEvent.op = "signal"
    /\ lastEvent.conn \in MembersIn(prev.rooms, EvCode) )
  => emitted = ToEach(MembersIn(prev.rooms, EvCode) \ {lastEvent.conn},
                      "signal", NoCode, lastEvent.conn, lastEvent.signal)

\* a member's answer was relayed to the other member, with a third connection
\* sitting in another room
C8_Witness ==
  /\ lastEvent.op = "signal"
  /\ lastEvent.signal = Answer(1)
  /\ Len(emitted) = 1
  /\ emitted[1].ev = "signal"
  /\ emitted[1].signal = Answer(1)
  /\ MembersIn(prev.rooms, EvCode) = {lastEvent.conn, emitted[1].to}
  /\ \E c \in DOMAIN rooms : c # EvCode /\ rooms[c].sockets \cap rooms[EvCode].sockets = {}

\* C9: a signal for a code that has no room is answered with room-not-found to
\* the sender; nothing is relayed, no room is created and no timer is armed.
C9_SignalUnknownRoom ==
  ( /\ lastEvent.op = "signal"
    /\ EvCode \notin DOMAIN prev.rooms )
  => ( /\ emitted = <<Msg(lastEvent.conn, "room-not-found", EvCode, NoPeer, NoSignal)>>
       /\ RegistryUnchanged )

\* a signal for a well-formed code without room was refused while another room
\* exists
C9_Witness ==
  /\ lastEvent.op = "signal"
  /\ ~Falsy(EvCode)
  /\ EvCode \notin DOMAIN prev.rooms
  /\ emitted = <<Msg(lastEvent.conn, "room-not-found", EvCode, NoPeer, NoSignal)>>
  /\ rooms # << >>

\* C10: a signal changes neither any room's members nor the set of rooms, and of
\* the timers only the one of the room it names; membership changes only on
\* join, disconnect and TTL expiry.
C10_SignalKeepsMembership ==
  /\ lastEvent.op = "signal" =>
       /\ DOMAIN rooms = DOMAIN prev.rooms
       /\ \A c \in DOMAIN rooms : rooms[c].sockets = prev.rooms[c].sockets
       /\ adapter = prev.adapter
       /\ { t \in timers : t.code # EvCode } = { t \in prev.timers : t.code # EvCode }
  /\ [c \in DOMAIN rooms |-> rooms[c].sockets]
        # [c \in DOMAIN prev.rooms |-> prev.rooms[c].sockets]
       => lastEvent.op \in {"join", "disconnect", "expire"}

\* a relayed signal has renewed the timer of its room while the timer of another
\* room kept running
C10_Witness ==
  /\ lastEvent.op = "signal"
  /\ Len(emitted) = 1
  /\ emitted[1].ev = "signal"
  /\ \E t \in prev.timers : t.code = EvCode /\ t.left < TtlTicks
  /\ \E t \in timers : t.code = EvCode /\ t.left = TtlTicks
  /\ \E t \in timers : t.code # EvCode /\ t.left < TtlTicks

(***************************************************************************)
(* The sender's connect against a broker that may send it any event, with  *)
(* the time of the attempt's timer                                         *)
(***************************************************************************)
MaxConnEvents == 3

ConnEvents ==
  { [ev |-> e, code |-> c] :
      e \in {"room-joined", "room-full", "peer-joined", "peer-disconnected"},
      c \in {clientCode(PairingCode), OtherCode} }

\* the transport to the broker is established
ConnBrokerAccepts ==
  /\ snd.pc = "joining"
  /\ ~story.paired
  /\ net' = deliver(net, <<Msg(sndSig.socket, "connect", NoCode, NoPeer, NoSignal)>>)
  /\ story' = [story EXCEPT !.paired = TRUE]
  /\ UNCHANGED <<snd, sndPeer, sndSig, rcv, rcvPeer, brokerVars>>

\* the broker emits an event to the sender's socket
ConnBrokerSends(m) ==
  /\ sndSig.socket # 0
  /\ story.sent < MaxConnEvents
  /\ net' = deliver(net, <<Msg(sndSig.socket, m.ev, m.code, NoPeer, NoSignal)>>)
  /\ story' = [story EXCEPT !.sent = @ + 1]
  /\ UNCHANGED <<snd, sndPeer, sndSig, rcv, rcvPeer, brokerVars>>

\* time passes while the timer of the attempt is armed
ConnTick ==
  /\ sndSig.connWait
  /\ sndSig.left > 0
  /\ sndSig' = [sndSig EXCEPT !.left = @ - 1, !.age = @ + 1]
  /\ UNCHANGED <<snd, sndPeer, rcv, rcvPeer, net, story, brokerVars>>

\* the timer of the attempt fires when its time is up
SenderConnectDeadline ==
  /\ sndSig.connWait
  /\ sndSig.left = 0
  /\ SenderStep(onConnectTimeout(SenderState), net, sndSig.socket)
  /\ UNCHANGED story

NextConn ==
  \/ \E kind \in {"text", "file"}, size \in PayloadSizes : SenderStart(kind, size)
  \/ ConnBrokerAccepts
  \/ \E m \in ConnEvents : ConnBrokerSends(m)
  \/ SenderSocketConnect
  \/ \E closeSync \in BOOLEAN : SenderRoomJoined(closeSync)
  \/ SenderJoinRejected
  \/ SenderJoinTimeout
  \/ \E closeSync \in BOOLEAN : SenderPeerJoined(closeSync)
  \/ SenderOtherEvent
  \/ SenderPeerSignal
  \/ ConnTick
  \/ SenderConnectDeadline

SpecConn == InitE2E /\ [][NextConn]_vars

(***************************************************************************)
(* Properties of the paired run                                            *)
(***************************************************************************)
\* the receiver joined as guest while the sender, who had created the room,
\* was connecting; since then no client left and came back, the channel did
\* not break and no frame was lost
C1_Scenario == story.paired /\ ~story.retried /\ ~story.broke /\ ~story.lost

\* both programs have finished
RunOver == snd.pc \in {"done", "failed"} /\ rcv.pc \in {"done", "failed"}

HandshakeTimeouts == {"peer-joined-timeout", "offer-timeout", "connect-timeout"}

\* C1: when a sender that joined as creator is paired through the broker with
\* a CLI receiver that joined the same code as guest after it, and nobody
\* disconnects, the transfer completes: neither side ends in a handshake
\* timeout, and once both have finished the receiver has sent the
\* acknowledgement and the sender reports success.
C1_TransferCompletes ==
  C1_Scenario =>
    /\ rcv.error \notin HandshakeTimeouts
    /\ snd.error \notin HandshakeTimeouts
    /\ RunOver => (snd.result = "success" /\ rcv.ackSent)

(***************************************************************************)
(* Properties of the sender's wait for the acknowledgement                 *)
(***************************************************************************)
\* the text of a frame as its reader sees it
FrameText(f) == IF f.type = "string" THEN f.body ELSE TextDecode(f.body)

\* a frame that is the acknowledgement marker, canonical or legacy
IsAckFrame(f) == FrameText(f) \in {ACK_MARKER, LEGACY_ACK}

HasAck(frames) == \E i \in 1..Len(frames) : IsAckFrame(frames[i])

\* C2: the sender reports success only if it had sent the end-of-payload
\* marker and its wait was then handed a frame that is the canonical or the
\* legacy acknowledgement marker; when the channel closed or failed or the
\* acknowledgement timeout elapsed before any such frame, it reports failure,
\* and that never turns into success.
C2_SuccessOnlyAfterAck ==
  /\ snd.result = "success" => snd.eofSent /\ HasAck(snd.handled)
  /\ (snd.firstEnd # "none" /\ ~HasAck(snd.handledAtEnd)) => snd.result = "failure"

\* both cases have happened: a wait that ignored a frame that is no marker and
\* then succeeded on one, the channel closing only afterwards
C2_Witness ==
  /\ snd.result = "success"
  /\ Len(snd.handled) > 1
  /\ snd.firstEnd = "close"

(***************************************************************************)
(* Disconnects and the expiry of rooms                                     *)
(***************************************************************************)
\* the timers armed for a room
TimersOf(T, c) == { t \in T : t.code = c }

\* the messages of an emission that name a room
AboutRoom(out, c) == SelectSeq(out, LAMBDA m : m.code = c)

\* the room's own timer is the only one armed for it, with a full TTL to run
Renewed(c) ==
  /\ c \in DOMAIN rooms
  /\ TimersOf(timers, c) =
       { [id |-> rooms[c].timer, code |-> c, kind |-> "expire", left |-> TtlTicks] }

\* C11: a disconnect removes the connection from every room it was a member of;
\* in each such room the remaining member, if any, gets exactly one
\* peer-disconnected{peerId, code}; a room left without members is deleted and
\* no timer stays armed for it; a room left with a member has its TTL renewed;
\* rooms the connection was not in are left as they were.
C11_Disconnect ==
  lastEvent.op = "disconnect" =>
    /\ \A c \in DOMAIN rooms : lastEvent.conn \notin rooms[c].sockets
    /\ \A i \in 1..Len(emitted) : emitted[i].ev = "peer-disconnected"
    /\ \A c \in DOMAIN prev.rooms :
         LET rest == prev.rooms[c].sockets \ {lastEvent.conn}
         IN IF lastEvent.conn \in prev.rooms[c].sockets
            THEN /\ AboutRoom(emitted, c) =
                      ToEach(rest, "peer-disconnected", c, lastEvent.conn, NoSignal)
                 /\ IF rest = {}
                    THEN c \notin DOMAIN rooms /\ TimersOf(timers, c) = {}
                    ELSE Renewed(c) /\ rooms[c].sockets = rest
            ELSE /\ AboutRoom(emitted, c) = <<>>
                 /\ c \in DOMAIN rooms
                 /\ rooms[c] = prev.rooms[c]
                 /\ TimersOf(timers, c) = TimersOf(prev.timers, c)

\* a connection that was alone in one room and paired in another, whose timer
\* was due, has just disconnected
C11_Witness ==
  /\ lastEvent.op = "disconnect"
  /\ \E c \in DOMAIN prev.rooms : prev.rooms[c].sockets = {lastEvent.conn}
  /\ \E d \in DOMAIN prev.rooms :
        /\ lastEvent.conn \in prev.rooms[d].sockets
        /\ prev.rooms[d].sockets # {lastEvent.conn}
        /\ \E t \in prev.timers : t.code = d /\ t.left = 0
        /\ Len(AboutRoom(emitted, d)) = 1

\* C12: when a room's timer fires, every member of the room gets one
\* room-expired{code}, and the room, its members and its timer are gone after
\* the step; room-expired is emitted by no other step, and no timer stays armed
\* for a room that is not registered, so a room deleted because its last member
\* left never expires.
C12_Expiry ==
  /\ lastEvent.op = "expire" =>
       IF lastEvent.raw \in DOMAIN prev.rooms
       THEN /\ emitted = ToEach(prev.rooms[lastEvent.raw].sockets, "room-expired",
                                lastEvent.raw, NoPeer, NoSignal)
            /\ lastEvent.raw \notin DOMAIN rooms
            /\ lastEvent.raw \notin DOMAIN adapter
            /\ TimersOf(timers, lastEvent.raw) = {}
       ELSE emitted = <<>>
  /\ lastEvent.op # "expire" =>
       \A i \in 1..Len(emitted) : emitted[i].ev # "room-expired"
  /\ \A t \in timers : t.code \in DOMAIN rooms /\ t.id = rooms[t.code].timer

\* a room of two members has just expired while another room lives on
C12_Witness ==
  /\ lastEvent.op = "expire"
  /\ Len(emitted) = 2
  /\ emitted[1].to # emitted[2].to
  /\ rooms # << >>

\* the last event was a join that succeeded
JoinSucceeded ==
  lastEvent.op = "join" /\ \E i \in 1..Len(emitted) : emitted[i].ev = "room-joined"

\* the last event was a signal for a registered room
SignalRelayed == lastEvent.op = "signal" /\ EvCode \in DOMAIN prev.rooms

C13_Rearmed ==
  /\ \A c \in DOMAIN rooms :
        \E t \in timers : TimersOf(timers, c) = {t} /\ t.id = rooms[c].timer
  /\ JoinSucceeded => Renewed(EvCode)
  /\ SignalRelayed => Renewed(EvCode)
  /\ lastEvent.op = "disconnect" =>
       \A c \in DOMAIN prev.rooms :
          (lastEvent.conn \in prev.rooms[c].sockets /\ prev.rooms[c].sockets # {lastEvent.conn})
            => Renewed(c)
  /\ (lastEvent.op = "expire" /\ emitted # <<>>) =>
       \A t \in TimersOf(prev.timers, lastEvent.raw) : t.left = 0

\* the TTL of a room has run out
Due(c) == c \in DOMAIN rooms /\ \E t \in TimersOf(timers, c) : t.left = 0

\* C13: a successful join, a relayed signal and a disconnect that leaves a
\* member each leave the room with a single timer that has one full TTL to run,
\* a room expires only when that timer has run out, and a room whose TTL has
\* run out is destroyed unless such an event re-arms it first.
C13_ExpiryRearmed ==
  /\ []C13_Rearmed
  /\ \A c \in Codes : Due(c) ~> (c \notin DOMAIN rooms \/ Renewed(c))

\* a signal has just been relayed in a room whose TTL had run out
C13_Witness ==
  /\ SignalRelayed
  /\ \E t \in TimersOf(prev.timers, EvCode) : t.left = 0
  /\ Renewed(EvCode)
  /\ emitted # <<>>

(***************************************************************************)
(* The frames of a session                                                 *)
(***************************************************************************)
IsPrefix(a, b) == Len(a) <= Len(b) /\ a = SubSeq(b, 1, Len(a))

\* what a session is to put on the channel for its payload
FullSequence ==
  <<MetadataFrame(snd.kind)>>
    \o (IF snd.kind = "text" THEN textChunks(snd.build, snd.payload)
        ELSE chunkFile(snd.payload, CHUNK_SIZE))
    \o <<Str(EOF_MARKER)>>

\* C18: what the sender has put on the channel is at every moment a prefix of:
\* the metadata frame, the chunks of the payload in payload order, one end
\* marker; the end marker has gone out exactly when the whole sequence has, and
\* a session that waits for or has got its acknowledgement has sent all of it.
C18_FrameSequence ==
  /\ IsPrefix(snd.sent, FullSequence)
  /\ snd.eofSent <=> snd.sent = FullSequence
  /\ snd.pc \in {"awaitingAck", "done"} => snd.eofSent

\* a file of two different chunks has gone out, end marker included
C18_Witness ==
  /\ snd.kind = "file"
  /\ snd.eofSent
  /\ Len(snd.sent) = 4
  /\ snd.sent[2] # snd.sent[3]
  /\ snd.sent[4] = Str(EOF_MARKER)

(***************************************************************************)
(* The receiver's reception of a payload                                   *)
(***************************************************************************)
\* the position of the first end marker among frames, one past the end if none
FirstEof(frames) ==
  CHOOSE i \in 1..(Len(frames) + 1) :
    /\ i = Len(frames) + 1 \/ isEof(frames[i])
    /\ \A j \in 1..(i - 1) : ~isEof(frames[j])

\* what a chunk adds to the payload: its text in a text session, its bytes in
\* a file session
ChunkContent(kind, f) ==
  IF kind = "file" \/ f.type = "string" THEN f.body ELSE BufferToString(f.body)

\* the payload of the chunks that came after the metadata frame and before the
\* end marker
Expected(frames) ==
  Flatten([k \in 1..(FirstEof(frames) - 2) |-> ChunkContent(frames[1].body[2], frames[k + 1])])

\* the session received a metadata frame first and is receiving or has
\* received its payload
Receiving ==
  /\ rcv.seen # <<>>
  /\ IsMetadataFrame(rcv.seen[1])
  /\ rcv.pc \in {"receiving", "receivingFile", "flushing", "lingering", "done"}

\* C14: the payload the receiver holds is that of the chunks received after the
\* metadata frame and before the end marker, each once and in order, whether
\* or not the operator was asked to confirm in between.
C14_NoChunkLost ==
  (Receiving /\ ~rcv.sinkFailed) =>
    (IF rcv.eofSeen THEN rcv.atEof ELSE Payload(rcv)) = Expected(rcv.seen)

\* C15: once the channel has closed between the metadata and the end marker, a
\* session that is over has failed, has sent no acknowledgement and has left
\* no file at the destination path.
C15_ClosedEarlyFails ==
  (rcv.closedEarly /\ rcv.pc \in {"done", "failed"}) =>
    /\ rcv.pc = "failed"
    /\ ~rcv.ackSent
    /\ rcv.file = "absent"

\* C16: once the write stream has failed before it finished, no
\* acknowledgement is sent and the session does not complete.
C16_SinkErrorFails ==
  rcv.sinkFailed => (~rcv.ackSent /\ rcv.pc \notin {"lingering", "done"})

\* C19: nothing reaches the payload before a metadata frame was accepted, at
\* most one message of a session is taken for metadata, and a first message
\* that is not a metadata frame fails the session.
C19_FirstIsMetadata ==
  /\ (rcv.text # <<>> \/ rcv.sink.state # "none") => rcv.metaCount > 0
  /\ rcv.metaCount <= 1
  /\ (rcv.seen # <<>> /\ ~IsMetadataFrame(rcv.seen[1])) => rcv.pc = "failed"

\* C20: once the end marker was observed, the text accumulator and what the
\* write stream has taken stay what they were at the marker.
C20_NothingAfterEof ==
  (rcv.eofSeen /\ ~rcv.sinkFailed) => Payload(rcv) = rcv.atEof

(***************************************************************************)
(* The size limit of the sender                                            *)
(***************************************************************************)
\* C17: for a payload above 50 MiB, text or file, the sender opens no socket
\* to the broker, joins no room and sends no frame; a payload of exactly
\* 50 MiB is not refused.
C17_OversizeRejected ==
  /\ snd.size > MAX_FILE_BYTES =>
       (snd.pc = "rejected" /\ sndSig.socket = 0 /\ snd.sent = <<>>)
  /\ snd.size = MAX_FILE_BYTES => snd.pc # "rejected"

(***************************************************************************)
(* TTL timers as scoped resources                                          *)
(***************************************************************************)
\* C30: every registered room has exactly one armed timer, the one its state
\* holds, and a code without a room has none; a timer that fires is the only
\* timer of a registered room, and after it no timer is armed for that code,
\* so no superseded timer fires and no room expires twice.
C30_OneTimerPerRoom ==
  /\ \A c \in Codes :
       IF c \in DOMAIN rooms
       THEN \E t \in timers : TimersOf(timers, c) = {t} /\ t.id = rooms[c].timer
       ELSE TimersOf(timers, c) = {}
  /\ \A t \in timers : t.code \in Codes
  /\ lastEvent.op = "expire" =>
       /\ lastEvent.raw \in DOMAIN prev.rooms
       /\ \E t \in prev.timers :
            /\ TimersOf(prev.timers, lastEvent.raw) = {t}
            /\ t.id = prev.rooms[lastEvent.raw].timer
            /\ t.left = 0
       /\ lastEvent.raw \notin DOMAIN rooms
       /\ TimersOf(timers, lastEvent.raw) = {}

\* a renewal has just replaced a timer that had partly run by a fresh one
C30_Witness ==
  /\ lastEvent.op \in {"join", "signal", "disconnect"}
  /\ \E c \in DOMAIN rooms :
       /\ c \in DOMAIN prev.rooms
       /\ \E t \in TimersOf(prev.timers, c) : t.left < TtlTicks
       /\ Renewed(c)
       /\ Cardinality(TimersOf(timers, c)) = 1

(***************************************************************************)
(* The spelling of the control markers                                     *)
(***************************************************************************)
\* the frames the sender has put on the channel after its metadata frame and
\* the chunks of its payload: its control markers
SenderMarkers ==
  LET n == 1 + Len(IF snd.kind = "text" THEN textChunks(snd.build, snd.payload)
                   ELSE chunkFile(snd.payload, CHUNK_SIZE))
  IN IF Len(snd.sent) > n THEN SubSeq(snd.sent, n + 1, Len(snd.sent)) ELSE <<>>

\* C22: every control marker the sender puts on the channel is the canonical
\* end marker and every frame the receiver puts on it the canonical
\* acknowledgement marker: neither 'EOF' nor 'ACK' is sent as a marker.
C22_CanonicalOnly ==
  /\ \A i \in 1..Len(SenderMarkers) : SenderMarkers[i] = Str(EOF_MARKER)
  /\ snd.eofSent => SenderMarkers # <<>>
  /\ \A i \in 1..Len(rcv.ackFrames) : rcv.ackFrames[i] = Str(ACK_MARKER)

\* C22 as the code has it: the sender's only control marker is the canonical
\* end marker; each acknowledgement step of the receiver puts the canonical
\* acknowledgement marker on the channel and then the legacy 'ACK'.
C22_CanonicalEofBothAcks ==
  /\ \A i \in 1..Len(SenderMarkers) : SenderMarkers[i] = Str(EOF_MARKER)
  /\ snd.eofSent => SenderMarkers # <<>>
  /\ Len(rcv.ackFrames) % 2 = 0
  /\ \A i \in 1..Len(rcv.ackFrames) :
       rcv.ackFrames[i] = IF i % 2 = 1 THEN Str(ACK_MARKER) ELSE Str(LEGACY_ACK)
  /\ rcv.ackSent <=> rcv.ackFrames # <<>>

\* the sender's end marker has gone out and the receiver has acknowledged
C22_Witness ==
  /\ snd.eofSent
  /\ SenderMarkers = <<Str(EOF_MARKER)>>
  /\ rcv.ackFrames # <<>>

(***************************************************************************)
(* The acknowledgement step                                                *)
(***************************************************************************)
\* the sink holds the whole payload and is final: the text is printed, or the
\* file is written and closed
SinkFinal ==
  LET kind == IF rcv.sink.state # "none" THEN "file" ELSE "text"
      payload == Flatten([k \in 1..(FirstEof(rcv.seen) - 2) |->
                            ChunkContent(kind, rcv.seen[k + 1])])
  IN IF kind = "file"
     THEN rcv.file = "complete" /\ rcv.sink.state = "finished" /\ rcv.sink.disk = payload
     ELSE rcv.printed = payload

\* C23: whatever frames arrive, the receiver acknowledges at most once in a
\* session (one step puts the two acknowledgement frames on the channel), and
\* only when it has seen the end marker and its sink is final with the
\* complete payload.
C23_AckOnceAfterComplete ==
  /\ Len(rcv.ackFrames) <= 2
  /\ rcv.ackSent => (rcv.eofSeen /\ SinkFinal)

(***************************************************************************)
(* Control markers and payload data                                        *)
(***************************************************************************)
\* C21: of the frames the sender puts on the channel for a payload, the
\* receiver's test for the end marker accepts only the end marker the sender
\* sent after the last chunk: no metadata frame or payload chunk is taken for
\* it, whatever the payload.
C21_MarkersDistinct ==
  \A i \in 1..Len(snd.sent) : isEof(snd.sent[i]) => i = Len(FullSequence)

(***************************************************************************)
(* The chunking of a payload                                               *)
(***************************************************************************)
\* the chunks of a payload that has gone out whole
SentChunks == SubSeq(snd.sent, 2, Len(snd.sent) - 1)

\* the payload in bytes: a text in UTF-8, a file as it is
PayloadBytes == IF snd.kind = "text" THEN TextEncode(snd.payload) ELSE snd.payload

CeilDiv(n, d) == (n + d - 1) \div d

\* C25: chunkText and chunkFile turn a payload of n bytes into ceil(n /
\* CHUNK_SIZE) chunks, each of CHUNK_SIZE bytes but the last, which is not
\* empty and not longer; the chunks put together in order are the payload, and
\* an empty payload has no chunk.
C25_Chunking ==
  snd.eofSent =>
    /\ Len(SentChunks) = CeilDiv(Len(PayloadBytes), CHUNK_SIZE)
    /\ \A k \in 1..Len(SentChunks) :
         /\ ByteLength(SentChunks[k]) >= 1
         /\ ByteLength(SentChunks[k]) <= CHUNK_SIZE
         /\ k < Len(SentChunks) => ByteLength(SentChunks[k]) = CHUNK_SIZE
    /\ Flatten([k \in 1..Len(SentChunks) |-> SentChunks[k].body])
         = (IF snd.kind = "text" /\ snd.build = "string" THEN snd.payload ELSE PayloadBytes)
    /\ snd.payload = <<>> => SentChunks = <<>>

(***************************************************************************)
(* The text the receiver reassembles                                       *)
(***************************************************************************)
\* the receiver has received just the frames the sender's session sent, took
\* the sender's end marker for the end, and has printed the text
TextDelivered ==
  /\ snd.kind = "text"
  /\ snd.eofSent
  /\ rcv.seen = [k \in 1..Len(snd.sent) |-> Wire(snd.sent[k])]
  /\ FirstEof(rcv.seen) = Len(snd.sent)
  /\ rcv.printed # NotPrinted

\* C24: the text the receiver has put together from the chunks that came
\* before the end marker is the text the sender was given, also when the text
\* is longer than one chunk and a character of several bytes lies across a
\* chunk boundary.
C24_TextRoundTrip == TextDelivered => rcv.printed = snd.payload

(***************************************************************************)
(* The signaling client's join and the start of the receiver               *)
(***************************************************************************)
\* a listener of the receiver's socket runs on the event at the head of its
\* queue
Dispatched(evs) ==
  /\ HasReceiverEvent(evs)
  /\ net'.down[rcv.socket] = Tail(net.down[rcv.socket])
  /\ story' = story

JoinErrors == {"room-full", "room-not-found", "room-expired"}

JoinPending == rcv.joinListeners /\ rcv.joinResult = "none"

\* C26: join resolves only on room-joined for its code, and rejects only on
\* room-full, room-not-found, room-expired or a timeout, reporting that event
\* to the caller; while it is pending each of these events settles it that
\* way, and once it is settled no later event changes the outcome.
C26_JoinSettlesOnce ==
  /\ [](/\ rcv.joinResult = "resolved" =>
             rcv.joinBy = [ev |-> "room-joined", code |-> rcv.code]
        /\ rcv.joinResult = "rejected" =>
             /\ rcv.joinBy.ev \in JoinErrors \cup {"timeout"}
             /\ rcv.pc = "failed"
             /\ rcv.error = (IF rcv.joinBy.ev # "timeout" THEN rcv.joinBy.ev
                             ELSE IF rcv.joinListeners THEN "join-timeout"
                             ELSE rcv.error)
        /\ rcv.joinResult = "none" => rcv.pc \in {"idle", "wsConnecting", "joining"})
  /\ [][/\ rcv.joinResult # "none" =>
             rcv.joinResult' = rcv.joinResult /\ rcv.joinBy' = rcv.joinBy
        /\ (JoinPending /\ Dispatched({"room-joined"}) /\ ReceiverEvent.code = rcv.code) =>
             rcv.joinResult' = "resolved"
        /\ (JoinPending /\ Dispatched({"room-not-found"})) =>
             rcv.joinResult' = "rejected" /\ rcv.error' = "room-not-found"
        /\ (JoinPending /\ Dispatched({"room-full"})) =>
             rcv.joinResult' = "rejected" /\ rcv.error' = "room-full"
        /\ (JoinPending /\ Dispatched({"room-expired"}) /\ ReceiverEvent.code = rcv.code) =>
             rcv.joinResult' = "rejected" /\ rcv.error' = "room-expired"]_vars

\* the timer rejected the join, and a later event of the broker has run its
\* listener without changing the outcome
C26_Witness ==
  /\ rcv.joinResult = "rejected"
  /\ rcv.joinBy.ev = "timeout"
  /\ rcv.error = "join-timeout"
  /\ ~rcv.joinListeners

\* C27: a join is settled by an event of the broker only if the event carries
\* the code of the join.
C27_OtherCodeIgnored ==
  (rcv.joinResult # "none" /\ rcv.joinBy.ev # "timeout") => rcv.joinBy.code = rcv.code

C29_PeerAfterOffer == rcv.peerMade => (rcv.pjOwn /\ rcv.offerAfterJoin)

\* C29, amended: the peer is constructed only after peer-joined for the own
\* code, and start() goes on to wait for the connection only after an offer
\* that followed it.
C29_PeerAfterJoinOfferBeforeConnect ==
  /\ rcv.peerMade => rcv.pjOwn
  /\ rcvPeer.gen # 0 => rcv.peerMade
  /\ rcv.pc = "waitOffer" => rcv.peerMade
  /\ (rcv.pc = "waitConnect" \/ rcv.error = "connect-timeout") => rcv.offerAfterJoin

\* start() waits for the connection although a peer-joined for another code
\* or a signal that is no offer reached one of its waits
C29_Witness == rcv.pc = "waitConnect" /\ rcv.ignored /\ rcv.offerAfterJoin

(***************************************************************************)
(* Membership and the right to signal                                      *)
(***************************************************************************)
\* C37: a signal that names a registered room and comes from a connection
\* that is not a member of it is relayed to nobody and leaves the room's
\* timer as it was.
C37_OnlyMembersSignal ==
  ( /\ lastEvent.op = "signal"
    /\ EvCode \in DOMAIN prev.rooms
    /\ lastEvent.conn \notin prev.rooms[EvCode].sockets )
  => /\ \A i \in 1..Len(emitted) : emitted[i].ev # "signal"
     /\ timers = prev.timers

\* C40: a join-room from a connection that is already a member of the room
\* it names leaves the member set of that room, and of every other room, as
\* it was, in the registry and in socket.io's own rooms.
C40_JoinIdempotent ==
  ( /\ lastEvent.op = "join"
    /\ EvCode \in DOMAIN prev.rooms
    /\ lastEvent.conn \in prev.rooms[EvCode].sockets )
  => /\ DOMAIN rooms = DOMAIN prev.rooms
     /\ \A c \in DOMAIN rooms : rooms[c].sockets = prev.rooms[c].sockets
     /\ adapter = prev.adapter

\* a member joined again while it was alone in its room and was accepted
C40_Witness ==
  /\ lastEvent.op = "join"
  /\ EvCode \in DOMAIN prev.rooms
  /\ prev.rooms[EvCode].sockets = {lastEvent.conn}
  /\ \E i \in 1..Len(emitted) : emitted[i].ev = "room-joined" /\ emitted[i].to = lastEvent.conn
  /\ Renewed(EvCode)

(***************************************************************************)
(* The receiver's steps at the end of the payload                          *)
(***************************************************************************)
\* the sink holds its final state: the text is printed, or the write stream
\* has finished and the file is complete
SinkFinalized ==
  IF rcv.sink.state = "none" THEN rcv.printed # NotPrinted
  ELSE rcv.sink.state = "finished" /\ rcv.file = "complete"

\* C31: after the end marker the receiver finalizes the sink, then
\* acknowledges, then lingers, then closes: an acknowledgement is sent only
\* with the end marker seen and the sink finalized, and the linger interval,
\* at whose end the receiver closes the channel, starts only after that.
C31_FinalizeAckLingerClose ==
  /\ rcv.ackSent => (rcv.eofSeen /\ SinkFinalized)
  /\ rcv.pc \in {"lingering", "done"} => (rcv.eofSeen /\ SinkFinalized)
  /\ (rcv.pc = "done" /\ rcvPeer.gen = 0 /\ ~rcv.closedEarly) =>
       (rcv.eofSeen /\ rcv.finished)

(***************************************************************************)
(* Metadata that arrives before it is waited for                           *)
(***************************************************************************)
\* C39: metadata that arrives after start() resolved and before
\* waitForMetadata is called is kept; it is not handed to the data listeners,
\* and the call that follows resolves with it, unless the channel was torn
\* down in between.
C39_EarlyMetadataRetained ==
  rcv.early # "none" =>
    /\ rcv.pc = "started" => (rcv.cleaning \/ rcv.metadata = rcv.early)
    /\ rcv.pc # "started" =>
         (rcv.returned = rcv.early \/ (rcv.returned = "none" /\ rcv.cleaning))
    /\ Len(rcv.seen) = rcv.metaCount => (rcv.lost = <<>> /\ rcv.text = <<>>)

\* a file's metadata came early, and the reception it started took chunks
C39_Witness ==
  /\ rcv.early = "file"
  /\ rcv.returned = "file"
  /\ ~rcv.cleaning
  /\ rcv.sink.disk # <<>>

(***************************************************************************)
(* A declined file                                                         *)
(***************************************************************************)
\* C38: once the operator has declined the prompt, no file exists at the
\* destination, no acknowledgement was sent, the receiver's end of the
\* channel is closed and its socket disconnected, and the sender's send has
\* not succeeded; when the run is over it has failed.
C38_DeclineFailsSender ==
  rcv.pc = "declined" =>
    /\ rcv.file = "absent" /\ rcv.sink.state = "none"
    /\ ~rcv.ackSent /\ rcv.ackFrames = <<>>
    /\ rcvPeer.gen = 0
    /\ rcv.disconnected /\ rcv.socket \in net.gone
    /\ snd.result # "success"
    /\ Quiescent => snd.result = "failure"

\* the file was declined after the sender had sent all of it, and the sender
\* has reported the failure
C38_Witness ==
  /\ rcv.pc = "declined"
  /\ snd.kind = "file" /\ snd.eofSent
  /\ snd.result = "failure"
  /\ Quiescent

\* C32: every wait of the CLI receiver (SignalingClient.connect and join,
\* waitForPeerJoined, waitForOffer, the wait for the connection at the end of
\* start(), waitForMetadata) ends with its timer cancelled and every listener
\* it registered removed: once a wait is over, nothing of it is left.
C32_WaitsLeaveNothing ==
  /\ rcv.pc # "wsConnecting" => rcv.waits \cap ConnectWait = {}
  /\ rcv.joinResult # "none" => (~rcv.joinListeners /\ "join.timer" \notin rcv.waits)
  /\ rcv.pc # "waitPeerJoined" => "peerJoined" \notin rcv.waits
  /\ rcv.pc # "waitOffer" => "offer" \notin rcv.waits
  /\ rcv.pc # "waitConnect" => rcv.waits \cap StartWait = {}
  /\ rcv.pc # "waitMetadata" => "metadata" \notin rcv.waits

\* C36: a peer-joined event that makes the sender replace its peer during
\* connect leaves the new peer's signal wiring in place, also when the old
\* peer's close event is delivered asynchronously: while the sender waits for
\* a live peer to connect, inbound signals reach that peer and its outbound
\* signals reach the broker.
C36_NewPeerStaysWired ==
  (sndSig.connWait /\ sndPeer.gen # 0 /\ ~sndPeer.destroyed) => sndSig.sigWired

\* C35: a peer-joined event received while the sender is connecting restarts
\* the handshake but does not extend the connect deadline: the time left never
\* reaches beyond the deadline armed when connecting began, and a session
\* that fails on the connect timeout fails exactly at that deadline.
C35_DeadlineNotExtended ==
  /\ sndSig.connWait => sndSig.age + sndSig.left <= ConnectTicks
  /\ snd.error = "connect-timeout" => sndSig.age = ConnectTicks

C34_NoDispatchAfterTeardown ==
  /\ ~snd.late
  /\ snd.torn => ~sndSig.sigWired
  /\ rcv.cleaning => ~rcv.sigWired

====
